---- MODULE Spec2Model ----
(***************************************************************************)
(* parity-processbot: the merge queue driven by pull-request comments and  *)
(* status / check-run webhooks (src/src/webhook.rs), with the companion    *)
(* update that re-enters the queue (src/src/webhook.rs update_companion).  *)
(*                                                                         *)
(* Strings the code trims or lower-cases (commit ids, comment bodies) are  *)
(* sequences of one-character strings, so that trim() and to_lowercase()   *)
(* are computed.  Messages that are only compared are TLA+ strings.        *)
(***************************************************************************)
EXTENDS Integers, Sequences, FiniteSets, TLC

VARIABLES
    db,       \* the rocksdb store: a set of [key, val] entries
    lock,     \* owner of the Mutex<AppState>, 0 when free
    pc,       \* per request task: position in webhook()
    loc,      \* per request task: locals of the handler and what it did
    head,     \* GitHub: index of the head commit of each pull request
    merged    \* GitHub: whether the pull request is merged

vars == <<db, lock, pc, loc, head, merged>>

----------------------------------------------------------------------------
(* Bounds of the model *)

NumProcs == 2   \* concurrent requests to the server
MaxHead == 2    \* head commits a pull request goes through
MaxReviews == 2 \* reviews of a pull request when merge_allowed is examined
MaxChecks == 2  \* check runs of a commit when ready_to_merge is examined
MaxLines == 3   \* lines of a pull request body when companion_parse is examined
MaxLineLen == 2 \* pieces of text and references in a line of such a body
MaxDiffLen == 4 \* characters git diff --name-only prints in the companion update

Procs == 1..NumProcs

----------------------------------------------------------------------------
(* Strings *)

IsSpace(c) == c \in {" ", "\n", "\t"}

RECURSIVE TrimStart(_)
TrimStart(s) ==
    IF s # <<>> /\ IsSpace(Head(s)) THEN TrimStart(Tail(s)) ELSE s

RECURSIVE TrimEnd(_)
TrimEnd(s) ==
    IF s # <<>> /\ IsSpace(s[Len(s)])
    THEN TrimEnd(SubSeq(s, 1, Len(s) - 1))
    ELSE s

\* str::trim
Trim(s) == TrimEnd(TrimStart(s))

LowerChar(c) ==
    CASE c = "B" -> "b" [] c = "O" -> "o" [] c = "T" -> "t"
      [] c = "M" -> "m" [] c = "E" -> "e" [] c = "R" -> "r"
      [] c = "G" -> "g" [] c = "F" -> "f" [] c = "C" -> "c"
      [] c = "A" -> "a" [] c = "N" -> "n" [] c = "L" -> "l"
      [] c = "H" -> "h" [] c = "I" -> "i" [] c = "S" -> "s"
      [] c = "U" -> "u" [] c = "P" -> "p" [] OTHER -> c

\* str::to_lowercase
ToLower(s) == [i \in 1..Len(s) |-> LowerChar(s[i])]

StartsWith(s, prefix) ==
    /\ Len(prefix) <= Len(s)
    /\ SubSeq(s, 1, Len(prefix)) = prefix

----------------------------------------------------------------------------
(* Commit ids *)

NoSha == <<>>

Digit(n) == CASE n = 1 -> "1" [] n = 2 -> "2" [] n = 3 -> "3" [] OTHER -> "9"

\* the n-th head commit of pull request i
ShaOf(i, n) == <<IF i = 1 THEN "a" ELSE "b", Digit(n)>>

\* raw output of a git command: the commit id and a trailing newline
RawSha(s) == s \o <<"\n">>

----------------------------------------------------------------------------
(* GitHub: the pull requests the bot is asked about *)

PRIds == {1, 2}
NoPR == 0

PROwner(i) == "paritytech"
PRRepo(i) == IF i = 1 THEN "substrate" ELSE "polkadot"
PRNumber(i) == IF i = 1 THEN 42 ELSE 7
PRUrl(i) ==
    IF i = 1
    THEN "https://github.com/paritytech/substrate/pull/42"
    ELSE "https://github.com/paritytech/polkadot/pull/7"

\* GET /repos/{owner}/{repo}/pulls/{number}: which pull request answers
FindPR(owner, repo, number) ==
    IF \E i \in PRIds :
           PROwner(i) = owner /\ PRRepo(i) = repo /\ PRNumber(i) = number
    THEN CHOOSE i \in PRIds :
           PROwner(i) = owner /\ PRRepo(i) = repo /\ PRNumber(i) = number
    ELSE NoPR

AllShas == {ShaOf(i, n) : i \in PRIds, n \in 1..MaxHead}

Users == {"dev", "eve"}
OrgMembers == {"dev"}
BotLogin == "parity-processbot[bot]"

----------------------------------------------------------------------------
(* The stored merge request and the key-value store *)

MergeRequest(owner, repo_name, number, html_url, requested_by) ==
    [owner |-> owner, repo_name |-> repo_name, number |-> number,
     html_url |-> html_url, requested_by |-> requested_by]

NoRequest == MergeRequest("", "", 0, "", "")

DbHas(d, k) == \E e \in d : e.key = k

\* DB::get: the value under k (NoRequest stands for None)
DbGet(d, k) == IF DbHas(d, k) THEN (CHOOSE e \in d : e.key = k).val ELSE NoRequest

\* DB::put: the value under k is replaced
DbPut(d, k, v) == {e \in d : e.key # k} \cup {[key |-> k, val |-> v]}

\* DB::delete that removes nothing
DbDeleteNothing(d, k) == d

\* DB::delete
DbDelete(d, k) == {e \in d : e.key # k}

----------------------------------------------------------------------------
(* Commands in comments *)

AUTO_MERGE_REQUEST == <<"b","o","t"," ","m","e","r","g","e">>
AUTO_MERGE_FORCE == AUTO_MERGE_REQUEST \o <<" ","f","o","r","c","e">>
AUTO_MERGE_CANCEL == AUTO_MERGE_REQUEST \o <<" ","c","a","n","c","e","l">>
COMPARE_RELEASE_REQUEST ==
    <<"b","o","t"," ","c","o","m","p","a","r","e"," ",
      "s","u","b","s","t","r","a","t","e">>
REBASE == <<"b","o","t"," ","r","e","b","a","s","e">>
BURNIN_REQUEST == <<"b","o","t"," ","b","u","r","n","i","n">>

Matches(body, command) == Trim(ToLower(body)) = Trim(ToLower(command))

\* the branch of handle_comment's if / else-if chain a body takes
CommandOf(body, repo_name) ==
    IF Matches(body, AUTO_MERGE_REQUEST) THEN "merge"
    ELSE IF Matches(body, AUTO_MERGE_FORCE) THEN "force"
    ELSE IF Matches(body, AUTO_MERGE_CANCEL) THEN "cancel"
    ELSE IF repo_name = "polkadot" /\ Matches(body, COMPARE_RELEASE_REQUEST)
         THEN "compare"
    ELSE IF Matches(body, REBASE) THEN "rebase"
    ELSE IF StartsWith(Trim(ToLower(body)), Trim(ToLower(BURNIN_REQUEST)))
         THEN "burnin"
    ELSE "none"

\* comment bodies delivered by the issue_comment webhook ("^" stands for a
\* backquote)
CommentBodies ==
    { <<" ","B","o","t"," ","M","e","r","g","e","\n">>,
      AUTO_MERGE_FORCE,
      AUTO_MERGE_CANCEL \o <<"\n">>,
      COMPARE_RELEASE_REQUEST,
      REBASE,
      BURNIN_REQUEST \o <<" ","^","^","^","x","^","^","^">>,
      BURNIN_REQUEST,
      <<"b","o","t"," ","m","e","r","g","e","s">>,
      <<"l","g","t","m">> }

----------------------------------------------------------------------------
(* Errors and the reporter *)

Err(kind, msg, sha, issue) ==
    [kind |-> kind, msg |-> msg, sha |-> sha, issue |-> issue]

NoErr == Err("none", "", NoSha, NoPR)

Comment(pr, msg) == [pr |-> pr, msg |-> msg]

\* the troubleshoot block appended to the policy refusals
TROUBLESHOOT_MSG ==
    "Merge can be attempted if:\n- The PR has approval from two core-devs (or one if the PR is labelled insubstantial).\n- The PR has approval from a member of ^substrateteamleads^.\n- The PR is attached to a project column and has approval from the project owner.\n\nSee https://github.com/paritytech/parity-processbot#faq"

\* the message handle_error builds for an error that carries an issue
ErrorMessage(e) ==
    CASE e.kind = "Companion" -> "Error updating substrate"
      [] e.kind = "Merge" -> "Merge failed"
      [] e.kind = "ProcessFile" -> "Error getting Process.json"
      [] e.kind = "ProcessInfo" ->
            "Missing process info; check that the PR belongs to a project column."
              \o "\n\n" \o TROUBLESHOOT_MSG
      [] e.kind = "Approval" ->
            "Missing approval from the project owner or a minimum of core developers."
              \o "\n\n" \o TROUBLESHOOT_MSG
      [] e.kind = "HeadChanged" -> "Head SHA changed; merge aborted."
      [] e.kind = "ChecksFailed" -> "Checks failed; merge aborted."
      [] e.kind = "OrganizationMembership" ->
            "Error getting organization membership"
      [] e.kind = "Message" -> e.msg
      [] e.kind = "Response" -> "Error"
      [] OTHER -> "Unexpected error; see logs."

\* handle_error that reports and leaves the store alone
HandleErrorKeeps(e, d) ==
    IF e.kind = "none" \/ e.issue = NoPR
    THEN [db |-> d, comments |-> <<>>]
    ELSE [db |-> d, comments |-> <<Comment(e.issue, ErrorMessage(e))>>]

\* handle_error: the store and the comments after reporting e
HandleError(e, d) ==
    IF e.kind = "none" \/ e.issue = NoPR
    THEN [db |-> d, comments |-> <<>>]
    ELSE [db |-> IF e.kind \in {"Merge", "HeadChanged", "ChecksFailed"}
                 THEN DbDelete(d, e.sha)
                 ELSE d,
          comments |-> <<Comment(e.issue, ErrorMessage(e))>>]

----------------------------------------------------------------------------
(* Policy: merge_allowed *)

MinReviewers == 2

TeamLeads == {"lead"}
CoreDevs == {"core1", "core2"}

Review(user, state, submitted_at) ==
    [user |-> user, state |-> state, submitted_at |-> submitted_at]

\* what a team lookup gives: the members, or a failure
Team(ok, members) == [ok |-> ok, members |-> members]

\* a failed team lookup taken for the whole team
UnwrapAnyway(team) == team.members

\* github_bot.team(..).and_then(team_members).await.unwrap_or_else(|e| vec![])
UnwrapOrEmpty(team) == IF team.ok THEN team.members ELSE {}

\* no label counts as insubstantial
LabelNeverInsubstantial(label) == FALSE

\* label.name.contains("insubstantial"); a label name is a sequence of parts
LabelInsubstantial(label) == \E i \in 1..Len(label) : label[i] = "insubstantial"

\* reviews.iter().filter(member of team && Approved).count()
ApprovedBy(reviews, team) ==
    Cardinality({i \in 1..Len(reviews) :
                    reviews[i].user \in team /\ reviews[i].state = "Approved"})

\* owner approval by any Approved review of a project owner
OwnerApprovedAny(reviews, owners) ==
    \E i \in 1..Len(reviews) :
      reviews[i].user \in owners /\ reviews[i].state = "Approved"

\* reviews.iter().sorted_by_key(submitted_at).rev().find(is_owner)
\*        .map_or(false, |r| r.state == Approved)
OwnerApproved(reviews, owners) ==
    LET S == {i \in 1..Len(reviews) : reviews[i].user \in owners}
    IN  /\ S # {}
        /\ LET last == CHOOSE i \in S : \A j \in S :
                          \/ reviews[j].submitted_at < reviews[i].submitted_at
                          \/ /\ reviews[j].submitted_at = reviews[i].submitted_at
                             /\ j <= i
           IN  reviews[last].state = "Approved"

\* merge_allowed that looks at the requester before the mergeable flag
MergeAllowedLeadFirst(mergeable, labels, requested_by, min_reviewers_cfg, team_leads, core_devs, reviews, process) ==
    IF requested_by \in UnwrapOrEmpty(team_leads) THEN "ok"
    ELSE IF mergeable # "true" THEN "Unmergeable"
    ELSE LET min_reviewers ==
                 IF \E l \in labels : LabelInsubstantial(l)
                 THEN 1 ELSE min_reviewers_cfg
             core_approved == ApprovedBy(reviews, UnwrapOrEmpty(core_devs)) >= min_reviewers
             lead_approved == ApprovedBy(reviews, UnwrapOrEmpty(team_leads)) >= 1
         IN  IF core_approved \/ lead_approved THEN "ok"
             ELSE IF ~process.ok THEN "ProcessFile"
             ELSE IF OwnerApproved(reviews, process.owners)
                     \/ requested_by \in process.owners THEN "ok"
             ELSE IF process.empty THEN "ProcessInfo"
             ELSE "Approval"

\* merge_allowed that takes exactly one team-lead approval for the team-lead
\* rule
MergeAllowedOneLead(mergeable, labels, requested_by, min_reviewers_cfg, team_leads, core_devs, reviews, process) ==
    IF mergeable # "true" THEN "Unmergeable"
    ELSE IF requested_by \in UnwrapOrEmpty(team_leads) THEN "ok"
    ELSE LET min_reviewers ==
                 IF \E l \in labels : LabelInsubstantial(l)
                 THEN 1 ELSE min_reviewers_cfg
             core_approved == ApprovedBy(reviews, UnwrapOrEmpty(core_devs)) >= min_reviewers
             lead_approved == ApprovedBy(reviews, UnwrapOrEmpty(team_leads)) = 1
         IN  IF core_approved \/ lead_approved THEN "ok"
             ELSE IF ~process.ok THEN "ProcessFile"
             ELSE IF OwnerApproved(reviews, process.owners)
                     \/ requested_by \in process.owners THEN "ok"
             ELSE IF process.empty THEN "ProcessInfo"
             ELSE "Approval"

\* merge_allowed: "ok", or the kind of the error it returns.  team_leads,
\* core_devs and reviews are what the lookups gave (empty when they failed).
MergeAllowed(mergeable, labels, requested_by, min_reviewers_cfg, team_leads, core_devs, reviews, process) ==
    IF mergeable # "true" THEN "Unmergeable"
    ELSE IF requested_by \in UnwrapOrEmpty(team_leads) THEN "ok"
    ELSE LET min_reviewers ==
                 IF \E l \in labels : LabelInsubstantial(l)
                 THEN 1 ELSE min_reviewers_cfg
             core_approved == ApprovedBy(reviews, UnwrapOrEmpty(core_devs)) >= min_reviewers
             lead_approved == ApprovedBy(reviews, UnwrapOrEmpty(team_leads)) >= 1
         IN  IF core_approved \/ lead_approved THEN "ok"
             ELSE IF ~process.ok THEN "ProcessFile"
             ELSE IF OwnerApproved(reviews, process.owners)
                     \/ requested_by \in process.owners THEN "ok"
             ELSE IF process.empty THEN "ProcessInfo"
             ELSE "Approval"

\* the error merge_allowed returns for an outcome other than "ok"
PolicyError(outcome, issue) ==
    IF outcome = "Unmergeable"
    THEN Err("Message", "The PR is currently unmergeable.", NoSha, issue)
    ELSE Err(outcome, "", NoSha, issue)

----------------------------------------------------------------------------
(* CI readiness *)

StatusStates == {"success", "pending", "failure", "error"}

CheckRun(status, conclusion) == [status |-> status, conclusion |-> conclusion]

AllSuccess(checks) ==
    \A i \in 1..Len(checks) : checks[i].conclusion = "success"

AllCompleted(checks) ==
    \A i \in 1..Len(checks) : checks[i].status = "completed"

\* ready_to_merge that looks at the combined status only
ReadyToMergeStatusOnly(state, checks) ==
    CASE state = "success" -> "Ready"
      [] state = "pending" -> "Pending"
      [] OTHER -> "Failed"

\* ready_to_merge: Ok(true) is "Ready", Ok(false) "Pending", ChecksFailed
\* "Failed"
ReadyToMerge(state, checks) ==
    CASE state = "success" ->
            IF AllSuccess(checks) THEN "Ready"
            ELSE IF AllCompleted(checks) THEN "Failed"
            ELSE "Pending"
      [] state = "pending" -> "Pending"
      [] OTHER -> "Failed"

\* checks_and_status that does not merge on a green commit
ResumeOutcomeWaits(checks, state) ==
    IF AllSuccess(checks)
    THEN CASE state \in {"success", "pending"} -> "none"
           [] OTHER -> "failed"
    ELSE IF AllCompleted(checks) THEN "failed"
    ELSE "none"

\* checks_and_status, once the head matches: what the check runs and the
\* combined status lead to
ResumeOutcome(checks, state) ==
    IF AllSuccess(checks)
    THEN CASE state = "success" -> "merge"
           [] state = "pending" -> "none"
           [] OTHER -> "failed"
    ELSE IF AllCompleted(checks) THEN "failed"
    ELSE "none"

----------------------------------------------------------------------------
(* Pull-request bodies and the companion reference *)

\* a body is None or lines; a line is a sequence of tokens: a piece of text,
\* or a reference to a pull request in the long form (its url, with or
\* without a query) or in the short form (owner/repo#number)
Text(chars) ==
    [t |-> "text", chars |-> chars, owner |-> "", repo |-> "",
     digits |-> <<>>, query |-> ""]

DecimalDigit(d) ==
    CASE d = 0 -> "0" [] d = 1 -> "1" [] d = 2 -> "2" [] d = 3 -> "3"
      [] d = 4 -> "4" [] d = 5 -> "5" [] d = 6 -> "6" [] d = 7 -> "7"
      [] d = 8 -> "8" [] OTHER -> "9"

RECURSIVE DigitsOf(_)
\* the decimal digits of a number
DigitsOf(n) ==
    IF n < 10 THEN <<DecimalDigit(n)>>
    ELSE Append(DigitsOf(n \div 10), DecimalDigit(n % 10))

RECURSIVE Join(_)
\* the string made of the characters of s
Join(s) == IF s = <<>> THEN "" ELSE Head(s) \o Join(Tail(s))

RECURSIVE ParseI64(_)
\* str::parse::<i64> of decimal digits
ParseI64(ds) ==
    IF ds = <<>> THEN 0
    ELSE 10 * ParseI64(SubSeq(ds, 1, Len(ds) - 1))
         + (CHOOSE d \in 0..9 : DecimalDigit(d) = ds[Len(ds)])

Word == Text(<<"s", "e", "e">>)
Marker == Text(<<"c", "o", "m", "p", "a", "n", "i", "o", "n", ":">>)
MarkerCapital == Text(<<"C", "o", "m", "p", "a", "n", "i", "o", "n", ":">>)
ShortRef(i) ==
    [t |-> "short", chars |-> <<>>, owner |-> PROwner(i), repo |-> PRRepo(i),
     digits |-> DigitsOf(PRNumber(i)), query |-> ""]
LongRef(i, query) ==
    [t |-> "long", chars |-> <<>>, owner |-> PROwner(i), repo |-> PRRepo(i),
     digits |-> DigitsOf(PRNumber(i)), query |-> query]

NoBody == [some |-> FALSE, lines |-> <<>>]
CompanionBody(i) ==
    [some |-> TRUE, lines |-> << <<Word>>, <<Marker, ShortRef(i)>>, <<Word>> >>]
ProseBody == [some |-> TRUE, lines |-> << <<Word>>, <<Word, Word>> >>]

Bodies == {NoBody, ProseBody, CompanionBody(2)}

\* the pieces a line of a body is made of
ParseTokens ==
    {Word, Marker, MarkerCapital, ShortRef(2), LongRef(2, ""),
     LongRef(2, "?extra_params=true")}

\* every body of up to MaxLines lines of up to MaxLineLen pieces
ParseBodies ==
    LET ParseLines == UNION {[1..n -> ParseTokens] : n \in 0..MaxLineLen}
    IN  {[some |-> TRUE, lines |-> ls]
           : ls \in UNION {[1..n -> ParseLines] : n \in 1..MaxLines}}

\* the marker of both regular expressions, matched case-insensitively
COMPANION_PREFIX == <<"c", "o", "m", "p", "a", "n", "i", "o", "n", ":">>

\* the marker matched with the case it is written in
IsMarkerExact(tok) == tok.t = "text" /\ tok.chars = COMPANION_PREFIX

IsMarker(tok) == tok.t = "text" /\ ToLower(tok.chars) = COMPANION_PREFIX

\* the places of a line where the marker is followed by a reference
RefsIn(line, form) ==
    {k \in 1..(Len(line) - 1) : IsMarker(line[k]) /\ line[k + 1].t = form}

\* Option<(html_url, owner, repo, number)>
NoRef == [some |-> FALSE, html_url |-> "", owner |-> "", repo |-> "", number |-> 0]

\* the captures of a reference: the url as written up to the number for the
\* long form, format!("https://github.com/{owner}/{repo}/pull/{number}") for
\* the short form
Captures(tok) ==
    [some |-> TRUE,
     html_url |-> "https://github.com/" \o tok.owner \o "/" \o tok.repo
                    \o "/pull/"
                    \o (IF tok.t = "long" THEN Join(tok.digits)
                        ELSE Join(DigitsOf(ParseI64(tok.digits)))),
     owner |-> tok.owner, repo |-> tok.repo, number |-> ParseI64(tok.digits)]

\* one regular expression that lets the reference follow on the next line
ParseFormAcrossLines(lines, form) ==
    LET hits == {n \in 1..Len(lines) : RefsIn(lines[n], form) # {}}
        split == {n \in 1..(Len(lines) - 1) :
                    /\ lines[n] # <<>> /\ lines[n + 1] # <<>>
                    /\ IsMarker(lines[n][Len(lines[n])])
                    /\ lines[n + 1][1].t = form}
    IN  IF hits # {}
        THEN LET n == CHOOSE x \in hits : \A y \in hits : x <= y
                 k == CHOOSE x \in RefsIn(lines[n], form) :
                          \A y \in RefsIn(lines[n], form) : x <= y
             IN  Captures(lines[n][k + 1])
        ELSE IF split # {}
        THEN Captures(lines[(CHOOSE x \in split : \A y \in split : x <= y) + 1][1])
        ELSE NoRef

\* one regular expression applied to the body: the first line that matches
ParseForm(lines, form) ==
    LET hits == {n \in 1..Len(lines) : RefsIn(lines[n], form) # {}}
    IN  IF hits = {} THEN NoRef
        ELSE LET n == CHOOSE x \in hits : \A y \in hits : x <= y
                 k == CHOOSE x \in RefsIn(lines[n], form) :
                          \A y \in RefsIn(lines[n], form) : x <= y
             IN  Captures(lines[n][k + 1])

\* companion_parse: the long form, or else the short form
CompanionParse(lines) ==
    IF ParseForm(lines, "long").some
    THEN ParseForm(lines, "long")
    ELSE ParseForm(lines, "short")

----------------------------------------------------------------------------
(* What the GitHub API answers *)

ProcessInfo(ok, owners, empty) == [ok |-> ok, owners |-> owners, empty |-> empty]

PolicyEnv(mergeable, labels, team_leads, core_devs, reviews, process) ==
    [mergeable |-> mergeable, labels |-> labels, team_leads |-> team_leads,
     core_devs |-> core_devs, reviews |-> reviews, process |-> process]

\* pull request, teams, reviews and process file as one comment's handling
\* may read them
OpenPolicyEnvs ==
    { PolicyEnv("null", {}, Team(TRUE, TeamLeads), Team(TRUE, CoreDevs), <<>>,
                ProcessInfo(TRUE, {}, TRUE)),
      PolicyEnv("false", {}, Team(TRUE, TeamLeads \cup {"dev"}), Team(TRUE, CoreDevs),
                <<Review("core1", "Approved", 1),
                  Review("core2", "Approved", 2)>>,
                ProcessInfo(TRUE, {}, TRUE)),
      PolicyEnv("true", {}, Team(TRUE, TeamLeads \cup {"dev"}), Team(TRUE, CoreDevs), <<>>,
                ProcessInfo(TRUE, {}, TRUE)),
      PolicyEnv("true", {}, Team(TRUE, TeamLeads), Team(TRUE, CoreDevs), <<>>,
                ProcessInfo(TRUE, {}, TRUE)),
      PolicyEnv("true", {}, Team(FALSE, TeamLeads), Team(TRUE, CoreDevs),
                <<Review("core1", "Approved", 1)>>,
                ProcessInfo(TRUE, {"own"}, FALSE)),
      PolicyEnv("true", {}, Team(TRUE, TeamLeads), Team(TRUE, CoreDevs),
                <<Review("core1", "Approved", 1),
                  Review("core2", "Approved", 2)>>,
                ProcessInfo(TRUE, {}, TRUE)),
      PolicyEnv("true", {<<"B0-", "insubstantial">>}, Team(TRUE, TeamLeads),
                Team(TRUE, CoreDevs),
                <<Review("core1", "Approved", 1)>>,
                ProcessInfo(TRUE, {}, TRUE)),
      PolicyEnv("true", {<<"A0-pleasereview">>}, Team(TRUE, TeamLeads),
                Team(FALSE, CoreDevs),
                <<Review("core1", "Approved", 1)>>,
                ProcessInfo(FALSE, {}, TRUE)),
      PolicyEnv("true", {}, Team(TRUE, TeamLeads), Team(TRUE, CoreDevs),
                <<Review("own", "ChangesRequested", 1),
                  Review("own", "Approved", 2)>>,
                ProcessInfo(TRUE, {"own"}, FALSE)) }

\* no answers fixed
NoEnv ==
    PolicyEnv("", {}, Team(FALSE, {}), Team(FALSE, {}), <<>>,
              ProcessInfo(FALSE, {}, TRUE))

Reviewers == {"lead", "core1", "core2", "own"}
ReviewStates == {"Approved", "ChangesRequested"}

\* the orders in which n reviews may have been submitted
SubmitOrders(n) == {t \in [1..n -> 1..n] : \A j, k \in 1..n : t[j] = t[k] => j = k}

\* the review lists of up to MaxReviews reviews, listed in any order of their
\* submitted_at
ReviewLists ==
    UNION { { [k \in 1..n |-> Review(f[k][1], f[k][2], t[k])]
                : f \in [1..n -> Reviewers \X ReviewStates],
                  t \in SubmitOrders(n) }
            : n \in 0..MaxReviews }

\* pull request, team lookups (also failed), reviews and process
\* file over all their combinations
WidePolicyEnvs ==
    { PolicyEnv(m, ls, tl, cd, rs, pi) :
        m \in {"true", "false", "null"},
        ls \in {{}, {<<"B0-", "insubstantial">>}, {<<"A0-pleasereview">>}},
        tl \in {Team(FALSE, {"lead", "dev"}), Team(TRUE, {"lead"}),
                Team(TRUE, {"lead", "dev"})},
        cd \in {Team(FALSE, CoreDevs), Team(TRUE, CoreDevs)},
        rs \in ReviewLists,
        pi \in {ProcessInfo(FALSE, {}, TRUE), ProcessInfo(TRUE, {}, TRUE),
                ProcessInfo(TRUE, {"own"}, FALSE),
                ProcessInfo(TRUE, {"own", "dev"}, FALSE)} }

\* a merged pull request is no longer reported mergeable
PolicyEnvs(is_merged) ==
    IF is_merged THEN {e \in OpenPolicyEnvs : e.mergeable # "true"}
    ELSE OpenPolicyEnvs

\* the answers merge_allowed may get in a handler with locals l
PolicyReads(l, is_merged) ==
    IF l.env = NoEnv THEN PolicyEnvs(is_merged) ELSE {l.env}

Succeeded == CheckRun("completed", "success")
Failed == CheckRun("completed", "failure")
Running == CheckRun("in_progress", "null")

CheckLists == {<<>>, <<Succeeded>>, <<Succeeded, Failed>>, <<Running, Succeeded>>}

\* combined status and check runs of a commit at the time they are read
CIReads == [state : StatusStates, checks : CheckLists]

\* no CI state fixed
NoCI == [state |-> "", checks |-> <<>>]

\* the check runs GitHub may report: status and conclusion vary independently
RunKinds ==
    {CheckRun(st, c) : st \in {"completed", "in_progress"},
                       c \in {"success", "failure", "null"}}

\* combined status with every list of up to MaxChecks check runs
WideCIReads ==
    [state : StatusStates,
     checks : UNION {[1..n -> RunKinds] : n \in 0..MaxChecks}]

\* the CI state ready_to_merge may read in a handler with locals l
ReadyReads(l) == IF l.ci = NoCI THEN CIReads ELSE {l.ci}

----------------------------------------------------------------------------
(* Locals of one handler, and the record of what it did *)

Loc0 ==
    [kind |-> "none",      \* payload: comment, status, check, label, other
     cmd |-> "",           \* the command in a comment
     sha |-> NoSha,        \* the commit of a status / check-run payload
     login |-> "",         \* the commenter
     pr |-> NoPR,          \* the pull request fetched
     prHead |-> NoSha,     \* pr.head.sha as fetched
     body |-> NoBody,      \* pr.body as fetched
     found |-> FALSE,      \* checks_and_status found a merge request
     authOk |-> FALSE,     \* check_org_membership returned Ok
     policyOk |-> FALSE,   \* merge_allowed returned Ok
     ready |-> "",         \* what ready_to_merge makes of the CI state read
     plan |-> "none",      \* what remains to be done
     err |-> NoErr,        \* the error the handler ended with
     merges |-> <<>>,      \* merge calls issued
     comments |-> <<>>,    \* comments posted
     puts |-> <<>>,        \* merge requests written
     redelivered |-> FALSE,\* the payload is a re-delivery
     status |-> "",        \* state / status of a status / check-run payload
     env |-> NoEnv,        \* what merge_allowed is to read, when fixed ahead
     ci |-> NoCI,          \* what ready_to_merge is to read, when fixed ahead
     diff |-> <<>>,        \* what git diff --name-only is to print, likewise
     git |-> <<>>,         \* update_companion_repository: reset and API calls
     dbBefore |-> {}]      \* the store when the handler started

\* an API failure that is tagged with a pull request wherever it occurs
HttpErrTagged(issue) ==
    Err("Http", "", NoSha, IF issue = NoPR THEN 1 ELSE issue)

HttpErr(issue) == Err("Http", "", NoSha, issue)

Report(l, e) == [l EXCEPT !.plan = "report", !.err = e]

WithBody(l) == {[l EXCEPT !.body = b] : b \in Bodies}

\* checks_and_status without the comparison of the head
HeadAlwaysMatches(commit_sha, pr_head) == TRUE

\* checks_and_status, line 255: the head has not moved
HeadMatches(commit_sha, pr_head) == commit_sha = pr_head

\* checks_and_status up to its decision: the locals it may end the reads with
ChecksAndStatusReads(kind, sha, d, hd) ==
    LET l0 == [Loc0 EXCEPT !.kind = kind, !.sha = sha, !.dbBefore = d]
        m == DbGet(d, Trim(sha))
        i == FindPR(m.owner, m.repo_name, m.number)
        l1 == [l0 EXCEPT !.found = TRUE, !.pr = i]
    IN  IF ~DbHas(d, Trim(sha)) THEN {l0}
        ELSE IF i = NoPR THEN {Report(l1, HttpErr(NoPR))}
        ELSE LET l2 == [l1 EXCEPT !.prHead = ShaOf(i, hd[i])]
             IN  {Report(l1, HttpErr(NoPR))}
                 \cup
                 IF HeadMatches(sha, l2.prHead)
                 THEN {Report(l2, HttpErr(NoPR))}
                      \cup
                      UNION {
                        LET l3 == [l2 EXCEPT
                                     !.ready = ReadyToMerge(ci.state, ci.checks)]
                            out == ResumeOutcome(ci.checks, ci.state)
                        IN  (IF AllSuccess(ci.checks)
                             THEN {Report(l3, HttpErr(NoPR))}
                             ELSE {})
                            \cup
                            (CASE out = "merge" ->
                                    WithBody([l3 EXCEPT !.plan = "merge"])
                               [] out = "failed" ->
                                    {Report(l3, Err("ChecksFailed", "", sha, i))}
                               [] OTHER -> {l3})
                        : ci \in CIReads }
                 ELSE {Report(l2, Err("HeadChanged", "", sha, i))}

\* handle_comment that queues the merge when ready_to_merge reports a failure
ReadinessReadsLenient(l, i) ==
    {Report(l, HttpErr(i))}
    \cup
    UNION {
      LET r == ReadyToMerge(ci.state, ci.checks)
          lr == [l EXCEPT !.ready = r]
      IN  CASE r = "Ready" -> WithBody([lr EXCEPT !.plan = "merge"])
            [] OTHER -> {[lr EXCEPT !.plan = "wait"]}
      : ci \in ReadyReads(l) }

\* ready_to_merge and what handle_comment does with its result
ReadinessReads(l, i) ==
    {Report(l, HttpErr(i))}
    \cup
    UNION {
      LET r == ReadyToMerge(ci.state, ci.checks)
          lr == [l EXCEPT !.ready = r]
      IN  CASE r = "Ready" -> WithBody([lr EXCEPT !.plan = "merge"])
            [] r = "Pending" -> {[lr EXCEPT !.plan = "wait"]}
            [] OTHER -> {Report(lr, Err("ChecksFailed", "", l.prHead, i))}
      : ci \in ReadyReads(l) }

\* merge_allowed alone, without check_org_membership before it
AuthorizeAnyone(l, login, i, mg) ==
    LET outcomes ==
            {MergeAllowed(e.mergeable, e.labels, login, MinReviewers,
                          e.team_leads, e.core_devs, e.reviews, e.process)
               : e \in PolicyReads(l, mg[i])}
        la == [l EXCEPT !.authOk = TRUE]
    IN  [refused |-> {Report(la, PolicyError(o, i)) : o \in outcomes \ {"ok"}},
         passed |-> IF "ok" \in outcomes
                    THEN {[la EXCEPT !.policyOk = TRUE]}
                    ELSE {}]

\* check_org_membership, then merge_allowed: the locals after both passed,
\* and the ways to end before
Authorize(l, login, i, mg) ==
    LET outcomes ==
            {MergeAllowed(e.mergeable, e.labels, login, MinReviewers,
                          e.team_leads, e.core_devs, e.reviews, e.process)
               : e \in PolicyReads(l, mg[i])}
        la == [l EXCEPT !.authOk = TRUE]
    IN  [refused |->
            {Report(l, Err("OrganizationMembership", "", NoSha, i))}
            \cup
            (IF login \in OrgMembers
             THEN {Report(la, PolicyError(o, i)) : o \in outcomes \ {"ok"}}
             ELSE {}),
         passed |->
            IF login \in OrgMembers /\ "ok" \in outcomes
            THEN {[la EXCEPT !.policyOk = TRUE]}
            ELSE {}]

\* `bot merge force` that waits for ready_to_merge like `bot merge`
ForceReadsChecked(passed, i) == UNION {ReadinessReads(l, i) : l \in passed}

\* handle_comment, `bot merge force` once both checks passed: the merge is
\* planned, no status or check run is read
ForceReads(passed, i) ==
    UNION {WithBody([l EXCEPT !.plan = "merge"]) : l \in passed}

HasFence(body) ==
    \E k \in 1..(Len(body) - 2) : SubSeq(body, k, k + 2) = <<"^", "^", "^">>

\* handle_comment, `bot merge` and `bot merge force` once the pull request
\* is fetched (locals l)
MergeCommandReads(l, mg) ==
    LET auth == Authorize(l, l.login, l.pr, mg)
    IN  IF l.cmd = "merge"
        THEN auth.refused
             \cup UNION {ReadinessReads(x, l.pr) : x \in auth.passed}
        ELSE auth.refused \cup ForceReads(auth.passed, l.pr)

\* handle_comment up to its first write: the locals it may end the reads with
HandleCommentReads(body, login, i, d, hd, mg) ==
    LET cmd == CommandOf(body, PRRepo(i))
        l0 == [Loc0 EXCEPT !.kind = "comment", !.cmd = cmd, !.login = login,
                           !.pr = i, !.dbBefore = d]
        l1 == [l0 EXCEPT !.prHead = ShaOf(i, hd[i])]
    IN  {Report(l0, HttpErr(i))}
        \cup
        CASE cmd \in {"merge", "force"} -> MergeCommandReads(l1, mg)
          [] cmd = "cancel" -> {[l1 EXCEPT !.plan = "cancel"]}
          [] cmd = "compare" -> {[l1 EXCEPT !.plan = "compare"]}
          [] cmd = "rebase" -> {[l1 EXCEPT !.plan = "rebase"]}
          [] cmd = "burnin" ->
                {Report(l1, Err("OrganizationMembership", "", NoSha, i))}
                \cup
                (IF login \in OrgMembers
                 THEN {[l1 EXCEPT !.authOk = TRUE,
                                  !.plan = IF HasFence(body)
                                           THEN "burnin" ELSE "burnin-invalid"]}
                 ELSE {})
          [] OTHER -> {l1}

----------------------------------------------------------------------------
(* The writes of a handler *)

\* the state a handler's writes start from and end in
World(d, hd, mg, l) ==
    [db |-> d, head |-> hd, merged |-> mg, loc |-> l]

Say(l, i, msg) == [l EXCEPT !.comments = Append(@, Comment(i, msg))]

\* the error is returned and never reaches handle_error
FailUnreported(w, e) == [w EXCEPT !.loc = [w.loc EXCEPT !.err = e]]

\* the error reaches handle_error (webhook, lines 73-75)
Fail(w, e) ==
    LET h == HandleError(e, w.db)
    IN  [w EXCEPT !.db = h.db,
                  !.loc = [w.loc EXCEPT !.err = e,
                                        !.comments = @ \o h.comments]]

\* create_merge_request that uses the commit id as it was handed over
CreateMergeRequestUntrimmed(d, owner, repo_name, number, html_url, requested_by, commit_sha) ==
    DbPut(d, commit_sha,
          MergeRequest(owner, repo_name, number, html_url, requested_by))

\* create_merge_request that keeps the entry a commit already has
CreateMergeRequestKeeps(d, owner, repo_name, number, html_url, requested_by, commit_sha) ==
    IF DbHas(d, Trim(commit_sha))
    THEN d
    ELSE DbPut(d, Trim(commit_sha),
               MergeRequest(owner, repo_name, number, html_url, requested_by))

\* create_merge_request: the entry written for a commit
CreateMergeRequest(d, owner, repo_name, number, html_url, requested_by, commit_sha) ==
    DbPut(d, Trim(commit_sha),
          MergeRequest(owner, repo_name, number, html_url, requested_by))

\* wait_to_merge that posts nothing
WaitToMergeSilent(w, i, requested_by, commit_sha) ==
    LET d == CreateMergeRequest(w.db, PROwner(i), PRRepo(i), PRNumber(i),
                                PRUrl(i), requested_by, commit_sha)
        l == [w.loc EXCEPT !.puts =
                Append(@, [key |-> Trim(commit_sha),
                           val |-> MergeRequest(PROwner(i), PRRepo(i),
                                                PRNumber(i), PRUrl(i),
                                                requested_by)])]
    IN  [w EXCEPT !.db = d, !.loc = l]

\* wait_to_merge
WaitToMerge(w, i, requested_by, commit_sha) ==
    LET d == CreateMergeRequest(w.db, PROwner(i), PRRepo(i), PRNumber(i),
                                PRUrl(i), requested_by, commit_sha)
        l == [w.loc EXCEPT !.puts =
                Append(@, [key |-> Trim(commit_sha),
                           val |-> MergeRequest(PROwner(i), PRRepo(i),
                                                PRNumber(i), PRUrl(i),
                                                requested_by)])]
    IN  [w EXCEPT !.db = d,
                  !.loc = Say(l, i, "Waiting for commit status.")]

\* companion_update: Some(sha) with the companion's head after the update,
\* as git printed it or trimmed
UpdatedShas(c, hd, mg) ==
    LET same == ShaOf(c, hd[c])
        next == ShaOf(c, hd[c] + 1)
    IN  {[sha |-> s, head |-> hd] : s \in {same, RawSha(same)}}
        \cup
        (IF ~mg[c] /\ hd[c] < MaxHead
         THEN {[sha |-> s, head |-> [hd EXCEPT ![c] = @ + 1]]
                 : s \in {next, RawSha(next)}}
         ELSE {})

\* str::split: the pieces of s between the separators, at least one piece
RECURSIVE Split(_, _)
Split(s, sep) ==
    IF \A k \in 1..Len(s) : s[k] # sep THEN <<s>>
    ELSE LET k == CHOOSE x \in 1..Len(s) :
                    s[x] = sep /\ \A y \in 1..(x - 1) : s[y] # sep
         IN  <<SubSeq(s, 1, k - 1)>> \o Split(SubSeq(s, k + 1, Len(s)), sep)

\* update_companion_repository from the diff on: the ways it may end, with
\* the reset and the calls to the trees, commits and refs API it made
UpdateCompanionRepository(diff_output, sha_before_update, created_sha) ==
    LET changed_files == Split(Trim(diff_output), "\n")
        Ended(ok, sha, git) == [ok |-> ok, sha |-> sha, git |-> git]
    IN  IF changed_files = <<>>
        THEN { Ended(FALSE, NoSha, <<"reset">>),
               Ended(TRUE, sha_before_update, <<"reset">>) }
        ELSE { Ended(FALSE, NoSha, <<>>),
               Ended(FALSE, NoSha, <<"trees">>),
               Ended(FALSE, NoSha, <<"trees", "commits">>),
               Ended(FALSE, NoSha, <<"trees", "commits", "refs">>),
               Ended(TRUE, created_sha, <<"trees", "commits", "refs">>) }

\* update_companion_repository: Ok(updated_sha), or an error
PerformCompanionUpdate(w, c) ==
    IF c = NoPR THEN {Fail(w, Err("CompanionUpdate", "", NoSha, NoPR))}
    ELSE {Fail(w, Err("CompanionUpdate", "", NoSha, c))}
         \cup
         { WaitToMerge([w EXCEPT !.head = u.head], c, BotLogin, u.sha)
             : u \in UpdatedShas(c, w.head, w.merged) }

\* detect_then_update_companion, with the error mapping of update_companion
\* (companion.rs)
DetectThenUpdateCompanion(w, merge_done_in) ==
    LET body == w.loc.body
        ref == IF body.some THEN CompanionParse(body.lines) ELSE NoRef
    IN  IF merge_done_in \in {"substrate", "main-for-processbot-staging"}
           /\ ref.some
        THEN PerformCompanionUpdate(w, FindPR(ref.owner, ref.repo, ref.number))
        ELSE {w}

\* update_companion that does not look at the repository of the merge
UpdateCompanionAnyRepo(w, repo_name) ==
    LET body == w.loc.body
        ref == CompanionParse(body.lines)
        c == FindPR(ref.owner, ref.repo, ref.number)
    IN  IF ~body.some \/ ~ref.some
        THEN {w}
        ELSE IF c = NoPR THEN {Fail(w, HttpErr(NoPR))}
        ELSE { Fail(w, HttpErr(c)),
               Fail(w, Err("Companion", "", NoSha, c)),
               Fail(w, Err("Message", "Failed updating substrate.", NoSha, c)) }
             \cup
             { WaitToMerge([w EXCEPT !.head = u.head], c, BotLogin, u.sha)
                 : u \in UpdatedShas(c, w.head, w.merged) }

\* update_companion (webhook.rs): the ways it may end
UpdateCompanion(w, repo_name) ==
    LET body == w.loc.body
        ref == CompanionParse(body.lines)
        c == FindPR(ref.owner, ref.repo, ref.number)
    IN  IF repo_name # "substrate" \/ ~body.some \/ ~ref.some
        THEN {w}
        ELSE IF c = NoPR THEN {Fail(w, HttpErr(NoPR))}
        ELSE { Fail(w, HttpErr(c)),
               Fail(w, Err("Companion", "", NoSha, c)),
               Fail(w, Err("Message", "Failed updating substrate.", NoSha, c)) }
             \cup
             { WaitToMerge([w EXCEPT !.head = u.head], c, BotLogin, u.sha)
                 : u \in UpdatedShas(c, w.head, w.merged) }

\* merge whose error carries no commit id
MergeCallNoSha(w, i) ==
    LET sha == w.loc.prHead
        call(ok) == [pr |-> i, sha |-> sha, ok |-> ok,
                     after |-> Len(w.loc.comments),
                     again |-> w.merged[i] /\ ShaOf(i, w.head[i]) = sha,
                     queued |-> DbHas(w.db, Trim(sha))]
        issued(ok) == [w EXCEPT !.loc = [w.loc EXCEPT
                                           !.merges = Append(@, call(ok))]]
    IN  [failed |-> Fail(issued(FALSE), Err("Merge", "", NoSha, i)),
         merged |->
            IF ~w.merged[i] /\ ShaOf(i, w.head[i]) = sha
            THEN {[issued(TRUE) EXCEPT !.merged = [@ EXCEPT ![i] = TRUE]]}
            ELSE {}]

\* merge: the call, and whether GitHub can accept it
MergeCall(w, i) ==
    LET sha == w.loc.prHead
        call(ok) == [pr |-> i, sha |-> sha, ok |-> ok,
                     after |-> Len(w.loc.comments),
                     again |-> w.merged[i] /\ ShaOf(i, w.head[i]) = sha,
                     queued |-> DbHas(w.db, Trim(sha))]
        issued(ok) == [w EXCEPT !.loc = [w.loc EXCEPT
                                           !.merges = Append(@, call(ok))]]
    IN  [failed |-> Fail(issued(FALSE), Err("Merge", "", sha, i)),
         merged |->
            IF ~w.merged[i] /\ ShaOf(i, w.head[i]) = sha
            THEN {[issued(TRUE) EXCEPT !.merged = [@ EXCEPT ![i] = TRUE]]}
            ELSE {}]

\* handle_comment that merges without prepare_to_merge
CommentMergeQuiet(w) ==
    LET i == w.loc.pr
        m == MergeCall(w, i)
    IN  {m.failed}
        \cup UNION {UpdateCompanion(x, PRRepo(i)) : x \in m.merged}

\* handle_comment, `bot merge` when ready and `bot merge force`:
\* prepare_to_merge, merge, update_companion
CommentMerge(w) ==
    LET i == w.loc.pr
        m == MergeCall([w EXCEPT !.loc = Say(@, i, "Trying merge.")], i)
    IN  {m.failed}
        \cup UNION {UpdateCompanion(x, PRRepo(i)) : x \in m.merged}

\* checks_and_status when green, without the delete after the merge
ResumeMergeKeeps(w) ==
    LET i == w.loc.pr
        m == MergeCall(w, i)
    IN  {m.failed}
        \cup UNION {UpdateCompanion(x, PRRepo(i)) : x \in m.merged}

\* checks_and_status when green that deletes after update_companion
ResumeMergeDeletesLast(w) ==
    LET i == w.loc.pr
        m == MergeCall(w, i)
    IN  {m.failed}
        \cup
        UNION {{IF y.loc.err = NoErr
                THEN [y EXCEPT !.db = DbDelete(@, Trim(w.loc.prHead))]
                ELSE y
                  : y \in UpdateCompanion(x, PRRepo(i))}
                 : x \in m.merged}

\* checks_and_status when green: merge, delete, update_companion
ResumeMerge(w) ==
    LET i == w.loc.pr
        m == MergeCall(w, i)
    IN  {m.failed}
        \cup
        UNION {UpdateCompanion(
                  [x EXCEPT !.db = DbDelete(@, Trim(w.loc.prHead))],
                  PRRepo(i))
                 : x \in m.merged}

\* `bot merge cancel` that only posts its comment
CancelMergeKeeps(w) ==
    [w EXCEPT !.loc = Say(@, w.loc.pr, "Merge cancelled.")]

\* `bot merge cancel` that asks for organization membership first
CancelMergeMembersOnly(w) ==
    LET i == w.loc.pr
    IN  IF w.loc.login \in OrgMembers
        THEN [w EXCEPT !.db = DbDelete(@, Trim(w.loc.prHead)),
                       !.loc = Say(@, i, "Merge cancelled.")]
        ELSE Fail(w, Err("OrganizationMembership", "", NoSha, i))

\* handle_comment, `bot merge cancel`
CancelMerge(w) ==
    LET i == w.loc.pr
    IN  [w EXCEPT !.db = DbDelete(@, Trim(w.loc.prHead)),
                  !.loc = Say(@, i, "Merge cancelled.")]

\* the remaining commands and the label handler: comments only
OtherWrites(w) ==
    LET l == w.loc
        i == l.pr
    IN  CASE l.plan = "compare" ->
                { [w EXCEPT !.loc = Say(l, i, "diff link")],
                  Fail(w, HttpErr(i)) }
          [] l.plan = "rebase" ->
                { [w EXCEPT !.loc = Say(l, i, "Rebasing.")],
                  Fail([w EXCEPT !.loc = Say(l, i, "Rebasing.")],
                       Err("Message", "rebase failed", NoSha, NoPR)),
                  Fail(w, Err("Message",
                              "PR response is missing required fields; rebase aborted.",
                              NoSha, i)) }
          [] l.plan = "burnin" ->
                { [w EXCEPT !.loc = Say(l, i, "your request has been forwarded")],
                  [w EXCEPT !.loc = Say(l, i, "your request could not be processed")] }
          [] l.plan = "burnin-invalid" ->
                { [w EXCEPT !.loc = Say(l, i, "invalid burn-in command")] }
          [] l.plan = "label" ->
                { [w EXCEPT !.loc = Say(l, i, "burn-in instructions")],
                  Fail(w, HttpErr(NoPR)) }
          [] OTHER -> {w}

\* everything a handler does after its reads, error reporting included
Writes(w) ==
    LET l == w.loc
    IN  CASE l.plan = "merge" ->
                IF l.kind = "comment" THEN CommentMerge(w) ELSE ResumeMerge(w)
          [] l.plan = "wait" -> {WaitToMerge(w, l.pr, l.login, l.prHead)}
          [] l.plan = "cancel" -> {CancelMerge(w)}
          [] l.plan = "report" -> {Fail(w, l.err)}
          [] OTHER -> OtherWrites(w)

----------------------------------------------------------------------------
(* The server: webhook() and the handlers it dispatches to *)

Init ==
    /\ db = {}
    /\ lock = 0
    /\ pc = [p \in Procs |-> "idle"]
    /\ loc = [p \in Procs |-> Loc0]
    /\ head = [i \in PRIds |-> 1]
    /\ merged = [i \in PRIds |-> FALSE]

\* a request to another path: the 404 response is built, without the lock
NotFound(p) ==
    /\ pc[p] = "idle"
    /\ pc' = [pc EXCEPT ![p] = "notfound"]
    /\ UNCHANGED <<db, lock, loc, head, merged>>

\* webhook() returns the 404 response
ReturnNotFound(p) ==
    /\ pc[p] = "notfound"
    /\ pc' = [pc EXCEPT ![p] = "idle"]
    /\ UNCHANGED <<db, lock, loc, head, merged>>

\* a request to /webhook arrives
Receive(p) ==
    /\ pc[p] = "idle"
    /\ pc' = [pc EXCEPT ![p] = "recv"]
    /\ UNCHANGED <<db, lock, loc, head, merged>>

\* a handler that starts without waiting for the lock
AcquireNoWait(p) ==
    /\ pc[p] = "recv"
    /\ lock' = p
    /\ pc' = [pc EXCEPT ![p] = "locked"]
    /\ UNCHANGED <<db, loc, head, merged>>

\* state.lock().await
Acquire(p) ==
    /\ pc[p] = "recv"
    /\ lock = 0
    /\ lock' = p
    /\ pc' = [pc EXCEPT ![p] = "locked"]
    /\ UNCHANGED <<db, loc, head, merged>>

\* the plans that go on to a merge call or to a write of the store
QueuePlans == {"merge", "wait", "cancel"}

\* the reads of a handler ended with locals l: a handler that is to merge,
\* queue or cancel goes on in Act, any other ends here, its comments and the
\* report of its error included
Proceed(p, l) ==
    /\ \E w \in IF l.plan \in QueuePlans
                THEN {World(db, head, merged, l)}
                ELSE Writes(World(db, head, merged, l)) :
         /\ db' = w.db
         /\ loc' = [loc EXCEPT ![p] = w.loc]
    /\ pc' = [pc EXCEPT ![p] = IF l.plan \in QueuePlans THEN "act" ELSE "done"]
    /\ UNCHANGED <<lock, head, merged>>

\* no x-hub-signature header: webhook() returns the error and drops the lock
MissingSignature(p) ==
    /\ pc[p] = "locked"
    /\ lock' = IF lock = p THEN 0 ELSE lock
    /\ pc' = [pc EXCEPT ![p] = "idle"]
    /\ UNCHANGED <<db, loc, head, merged>>

\* what webhook_inner says of a request it does not hand to handle_payload
RejectMessages ==
    {"Validation signature does not match", "Error parsing request body"}

\* webhook_inner that hands the payload to a handler before it fails
RejectedAfterDispatch(p) ==
    /\ pc[p] = "locked"
    /\ \E msg \in RejectMessages, i \in PRIds :
         Proceed(p, [Loc0 EXCEPT !.kind = "rejected", !.dbBefore = db,
                                 !.pr = i, !.plan = "label",
                                 !.err = Err("Message", msg, NoSha, NoPR)])

\* webhook_inner fails before handle_payload: the signature does not match
\* the body or the body is no payload; the error goes to handle_error
Rejected(p) ==
    /\ pc[p] = "locked"
    /\ \E msg \in RejectMessages :
         Proceed(p, [Loc0 EXCEPT !.kind = "rejected", !.dbBefore = db,
                                 !.plan = "report",
                                 !.err = Err("Message", msg, NoSha, NoPR)])

\* handle_payload: an event no handler is written for
Ignored(p) ==
    /\ pc[p] = "locked"
    /\ Proceed(p, [Loc0 EXCEPT !.kind = "other", !.dbBefore = db])

\* handle_status and handle_check for a commit
HandleCommit(p, kind, sha, status, runs, redelivered) ==
    IF runs
    THEN \E l \in ChecksAndStatusReads(kind, sha, db, head) :
           Proceed(p, [l EXCEPT !.status = status,
                                !.redelivered = redelivered])
    ELSE Proceed(p, [Loc0 EXCEPT !.kind = kind, !.sha = sha,
                                 !.status = status, !.dbBefore = db])

\* handle_status that asks for the checks whatever the state delivered
HandleStatusAlways(p) ==
    /\ pc[p] = "locked"
    /\ \E sha \in AllShas, status \in StatusStates :
         HandleCommit(p, "status", sha, status, TRUE, FALSE)

\* handle_status
HandleStatus(p) ==
    /\ pc[p] = "locked"
    /\ \E sha \in AllShas, status \in StatusStates :
         HandleCommit(p, "status", sha, status, status # "pending", FALSE)

\* handle_check
HandleCheck(p) ==
    /\ pc[p] = "locked"
    /\ \E sha \in AllShas, status \in {"completed", "in_progress"} :
         HandleCommit(p, "check", sha, status, status = "completed", FALSE)

\* handle_comment
HandleComment(p) ==
    /\ pc[p] = "locked"
    /\ \E body \in CommentBodies, login \in Users, i \in PRIds :
         \E l \in HandleCommentReads(body, login, i, db, head, merged) :
           Proceed(p, l)

\* handle_label_added
HandleLabelAdded(p) ==
    /\ pc[p] = "locked"
    /\ \E label \in {"A1-needsburnin", "B0-silent"}, i \in PRIds :
         Proceed(p, [Loc0 EXCEPT !.kind = "label", !.pr = i, !.dbBefore = db,
                                 !.plan = IF label = "A1-needsburnin"
                                          THEN "label" ELSE "none"])

\* the merge call and the writes of the store, and handle_error
Act(p) ==
    /\ pc[p] = "act"
    /\ \E w \in Writes(World(db, head, merged, loc[p])) :
         /\ db' = w.db
         /\ head' = w.head
         /\ merged' = w.merged
         /\ loc' = [loc EXCEPT ![p] = w.loc]
    /\ pc' = [pc EXCEPT ![p] = "done"]
    /\ UNCHANGED lock

\* the lock is dropped and 200 OK is answered
Release(p) ==
    /\ pc[p] = "done"
    /\ lock' = IF lock = p THEN 0 ELSE lock
    /\ pc' = [pc EXCEPT ![p] = "idle"]
    /\ loc' = [loc EXCEPT ![p] = Loc0]
    /\ UNCHANGED <<db, head, merged>>

\* what webhook() is about to return for the request of p
Response(p) ==
    CASE pc[p] = "done" -> [ok |-> TRUE, status |-> 200, body |-> ""]
      [] pc[p] = "notfound" -> [ok |-> TRUE, status |-> 404, body |-> "Not found."]
      [] OTHER -> [ok |-> FALSE, status |-> 0, body |-> ""]

\* the handling of a status / check-run payload ended in a merge call, in
\* ChecksFailed or in HeadChanged
Processed(l) ==
    /\ l.kind \in {"status", "check"}
    /\ l.merges # <<>> \/ l.err.kind \in {"ChecksFailed", "HeadChanged"}

\* GitHub delivers a processed status / check-run payload once more, and the
\* duplicate is the next request to get the lock
Redeliver(p) ==
    /\ pc[p] = "done"
    /\ Processed(loc[p])
    /\ pc' = [pc EXCEPT ![p] = "again"]
    /\ loc' = [loc EXCEPT ![p] = [Loc0 EXCEPT !.kind = loc[p].kind,
                                              !.sha = loc[p].sha,
                                              !.status = loc[p].status]]
    /\ UNCHANGED <<db, lock, head, merged>>

\* the duplicate is handled
HandleRedelivered(p) ==
    /\ pc[p] = "again"
    /\ HandleCommit(p, loc[p].kind, loc[p].sha, loc[p].status, TRUE, TRUE)

\* GitHub: a commit is pushed to the branch of an open pull request
Push(i) ==
    /\ ~merged[i]
    /\ head[i] < MaxHead
    /\ head' = [head EXCEPT ![i] = @ + 1]
    /\ UNCHANGED <<db, lock, pc, loc, merged>>

Next ==
    \/ \E p \in Procs :
         \/ NotFound(p)
         \/ ReturnNotFound(p)
         \/ Receive(p)
         \/ Acquire(p)
         \/ MissingSignature(p)
         \/ Rejected(p)
         \/ Ignored(p)
         \/ HandleStatus(p)
         \/ HandleCheck(p)
         \/ HandleComment(p)
         \/ HandleLabelAdded(p)
         \/ Act(p)
         \/ Release(p)
         \/ Redeliver(p)
         \/ HandleRedelivered(p)
    \/ \E i \in PRIds : Push(i)

Spec == Init /\ [][Next]_vars

----------------------------------------------------------------------------
(* merge_allowed over all it may read: a `bot merge` / `bot merge force`    *)
(* comment is being handled, the answers it will get are fixed at the start *)

PolicyInit ==
    /\ db = {}
    /\ lock = 1
    /\ head = [i \in PRIds |-> 1]
    /\ merged = [i \in PRIds |-> FALSE]
    /\ pc = [p \in Procs |-> IF p = 1 THEN "locked" ELSE "idle"]
    /\ \E cmd \in {"merge", "force"}, login \in OrgMembers, i \in PRIds,
          e \in WidePolicyEnvs :
         loc = [p \in Procs |->
                  IF p = 1
                  THEN [Loc0 EXCEPT !.kind = "comment", !.cmd = cmd,
                                    !.login = login, !.pr = i, !.env = e]
                  ELSE Loc0]

\* handle_comment from the fetch of the pull request to its first write
Decide(p) ==
    /\ pc[p] = "locked"
    /\ loc[p].env # NoEnv
    /\ \E l \in MergeCommandReads(
                  [loc[p] EXCEPT !.prHead = ShaOf(loc[p].pr, head[loc[p].pr]),
                                 !.dbBefore = db], merged) :
         Proceed(p, l)

PolicyNext == \E p \in Procs : Decide(p) \/ Act(p)

PolicySpec == PolicyInit /\ [][PolicyNext]_vars

----------------------------------------------------------------------------
(* ready_to_merge over all it may read: a `bot merge` comment of a team     *)
(* lead is being handled, the CI state it will read is fixed at the start   *)

\* answers to merge_allowed that let the requester `dev` pass
LeadRequestEnv ==
    PolicyEnv("true", {}, Team(TRUE, TeamLeads \cup {"dev"}),
              Team(TRUE, CoreDevs), <<>>, ProcessInfo(TRUE, {}, TRUE))

ReadinessInit ==
    /\ db = {}
    /\ lock = 1
    /\ head = [i \in PRIds |-> 1]
    /\ merged = [i \in PRIds |-> FALSE]
    /\ pc = [p \in Procs |-> IF p = 1 THEN "locked" ELSE "idle"]
    /\ \E login \in OrgMembers, i \in PRIds, ci \in WideCIReads :
         loc = [p \in Procs |->
                  IF p = 1
                  THEN [Loc0 EXCEPT !.kind = "comment", !.cmd = "merge",
                                    !.login = login, !.pr = i,
                                    !.env = LeadRequestEnv, !.ci = ci]
                  ELSE Loc0]

ReadinessSpec == ReadinessInit /\ [][PolicyNext]_vars

----------------------------------------------------------------------------
(* companion_parse over the bodies it may read: a `bot merge force` comment *)
(* on a pull request of substrate has passed its checks, the body of the    *)
(* pull request is any of ParseBodies                                       *)

ParseInit ==
    /\ db = {}
    /\ lock = 1
    /\ head = [i \in PRIds |-> 1]
    /\ merged = [i \in PRIds |-> FALSE]
    /\ pc = [p \in Procs |-> IF p = 1 THEN "act" ELSE "idle"]
    /\ \E b \in ParseBodies :
         \E l \in HandleCommentReads(AUTO_MERGE_FORCE, "dev", 1, db, head, merged) :
           /\ l.plan = "merge"
           /\ loc = [p \in Procs |->
                       IF p = 1 THEN [l EXCEPT !.body = b] ELSE Loc0]

ParseNext == \E p \in Procs : Act(p) \/ Release(p)

ParseSpec == ParseInit /\ [][ParseNext]_vars

----------------------------------------------------------------------------
(* update_companion_repository over what git diff may print: a pull request *)
(* of substrate that names its companion is about to be merged              *)

DiffInit ==
    /\ db = {}
    /\ lock = 1
    /\ head = [i \in PRIds |-> 1]
    /\ merged = [i \in PRIds |-> FALSE]
    /\ pc = [p \in Procs |-> IF p = 1 THEN "act" ELSE "idle"]
    /\ \E out \in UNION {[1..n -> {"f", " ", "\n"}] : n \in 0..MaxDiffLen} :
         \E l \in HandleCommentReads(AUTO_MERGE_FORCE, "dev", 1, db, head, merged) :
           /\ l.plan = "merge"
           /\ l.body = CompanionBody(2)
           /\ loc = [p \in Procs |->
                       IF p = 1 THEN [l EXCEPT !.diff = out] ELSE Loc0]

\* prepare_to_merge and merge succeed, then perform_companion_update with
\* update_companion_repository and the error mapping of update_companion
\* (companion.rs)
RunUpdate(p) ==
    /\ pc[p] = "act"
    /\ LET i == loc[p].pr
           ref == CompanionParse(loc[p].body.lines)
           c == FindPR(ref.owner, ref.repo, ref.number)
           before == ShaOf(c, head[c])
           created == ShaOf(c, head[c] + 1)
           start == World(db, head, merged, Say(loc[p], i, "Trying merge."))
       IN  \E x \in MergeCall(start, i).merged :
             \E u \in UpdateCompanionRepository(loc[p].diff, before, created) :
               LET xg == [x EXCEPT !.loc = [x.loc EXCEPT !.git = u.git]]
                   xh == IF u.sha = created
                         THEN [xg EXCEPT !.head = [@ EXCEPT ![c] = @ + 1]]
                         ELSE xg
                   w == IF u.ok
                        THEN WaitToMerge(xh, c, BotLogin, u.sha)
                        ELSE Fail(xg, Err("CompanionUpdate", "", NoSha, c))
               IN  /\ db' = w.db
                   /\ head' = w.head
                   /\ merged' = w.merged
                   /\ loc' = [loc EXCEPT ![p] = w.loc]
    /\ pc' = [pc EXCEPT ![p] = "done"]
    /\ UNCHANGED lock

DiffNext == \E p \in Procs : RunUpdate(p) \/ Release(p)

DiffSpec == DiffInit /\ [][DiffNext]_vars

----------------------------------------------------------------------------
(* The claims about the merge queue *)

Idx(s) == 1..Len(s)

\* request task p has finished its handler and still holds the lock
Done(p) == pc[p] = "done"

\* p handles a status or check-run payload that ran checks_and_status
Resume(p) == loc[p].kind \in {"status", "check"}

\* p handles a `bot merge` or `bot merge force` comment
MergeCommand(p) ==
    loc[p].kind = "comment" /\ loc[p].cmd \in {"merge", "force"}

\* C1: when a handler has issued a merge call that succeeded (bot merge on a
\* ready pull request, bot merge force, or the resume on a status / check-run
\* webhook), no merge request is stored under the merged head commit when the
\* handler ends.
C1_NoIntentAfterMerge ==
    \A p \in Procs :
      Done(p) =>
        \A k \in Idx(loc[p].merges) :
          loc[p].merges[k].ok => ~DbHas(db, Trim(loc[p].merges[k].sha))

\* C2: at most one merge call per head commit, in the case the claim singles
\* out: a status / check-run handler never issues a merge call for a head
\* commit with which the pull request is merged already.
C2_NoSecondMergeCall ==
    \A p \in Procs :
      Done(p) /\ Resume(p) =>
        \A k \in Idx(loc[p].merges) : ~loc[p].merges[k].again

\* C3: when a handler ends with ChecksFailed or HeadChanged for a commit, on
\* the resume path or on the command path, no merge request is stored under
\* that commit when the handler ends.
C3_FailureRemovesIntent ==
    \A p \in Procs :
      Done(p) /\ loc[p].err.kind \in {"ChecksFailed", "HeadChanged"} =>
        /\ loc[p].err.issue # NoPR
        /\ ~DbHas(db, Trim(loc[p].err.sha))

\* C3 witness: `bot merge` ends with ChecksFailed for a head commit that had a
\* merge request stored when the handler started.
C3_Witness ==
    \E p \in Procs :
      /\ Done(p)
      /\ loc[p].kind = "comment"
      /\ loc[p].err.kind = "ChecksFailed"
      /\ DbHas(loc[p].dbBefore, Trim(loc[p].err.sha))

\* C4: at most one /webhook request is handled at a time: a request that is
\* past state.lock() and not yet past the report of its error owns the lock,
\* and every change of the store is made by the owner of the lock.
C4_OneRequestAtATime ==
    /\ [](\A p \in Procs :
            pc[p] \in {"locked", "act", "done", "again"} => lock = p)
    /\ [][db' # db =>
            /\ lock \in Procs
            /\ lock' = lock
            /\ pc[lock] \in {"locked", "act", "again"}
            /\ pc'[lock] = "done"
            /\ \A q \in Procs \ {lock} : pc'[q] = pc[q] /\ loc'[q] = loc[q]]_vars

\* C4 witness: one request is between its reads and its writes while another
\* has arrived and waits for the lock.
C4_Witness ==
    \E p, q \in Procs : pc[p] = "act" /\ pc[q] = "recv"

\* C5: of the status / check-run webhooks handled for a commit, a handler
\* issues a merge call only while the merge request is still stored, issues
\* one call and leaves no merge request under the commit; a handler that finds
\* no merge request issues no call, posts nothing and leaves the store as it
\* found it.
C5_DuplicatesMergeOnce ==
    \A p \in Procs :
      Done(p) /\ Resume(p) =>
        /\ \A k \in Idx(loc[p].merges) : loc[p].merges[k].queued
        /\ loc[p].merges # <<>> =>
             /\ Len(loc[p].merges) = 1
             /\ loc[p].found
             /\ loc[p].prHead = loc[p].sha
             /\ loc[p].ready = "Ready"
             /\ ~DbHas(db, Trim(loc[p].sha))
        /\ loc[p].found /\ loc[p].plan = "merge" => Len(loc[p].merges) = 1
        /\ ~loc[p].found =>
             /\ loc[p].merges = <<>>
             /\ loc[p].comments = <<>>
             /\ db = loc[p].dbBefore

\* C5 witness: a status / check-run handler has merged with one call while
\* another request arrived and waits for the lock.
C5_Witness ==
    \E p, q \in Procs :
      /\ Done(p) /\ Resume(p)
      /\ Len(loc[p].merges) = 1 /\ loc[p].merges[1].ok
      /\ pc[q] = "recv"

C7_OneIntentPerCommit ==
    /\ \A e1, e2 \in db : e1.key = e2.key => e1 = e2
    /\ \A p \in Procs :
         Done(p) =>
           \A k \in Idx(loc[p].puts) :
             {e \in db : e.key = loc[p].puts[k].key} = {loc[p].puts[k]}

\* C7 witness: a handler wrote a merge request for a commit that had another
\* record stored when the handler started.
C7_Witness ==
    \E p \in Procs :
      /\ Done(p)
      /\ loc[p].puts # <<>>
      /\ DbHas(loc[p].dbBefore, loc[p].puts[1].key)
      /\ DbGet(loc[p].dbBefore, loc[p].puts[1].key) # loc[p].puts[1].val

\* C8: every merge request written is for the pull request and head commit of
\* a request that passed check_org_membership and merge_allowed in the handler
\* that writes it, the one written by the companion update included.
C8_IntentOnlyAfterChecks ==
    \A p \in Procs :
      Done(p) =>
        \A k \in Idx(loc[p].puts) :
          LET put == loc[p].puts[k]
          IN  /\ loc[p].authOk
              /\ loc[p].policyOk
              /\ FindPR(put.val.owner, put.val.repo_name, put.val.number)
                   = loc[p].pr
              /\ put.key = Trim(loc[p].prHead)

\* C9: a `bot merge` or `bot merge force` comment by a user who is no member
\* of the organization leads to no merge call and no merge request written;
\* the handler ends with OrganizationMembership, before merge_allowed (or
\* with the failure to fetch the pull request, before either).
C9_NonMemberRefused ==
    \A p \in Procs :
      Done(p) /\ MergeCommand(p) /\ loc[p].login \notin OrgMembers =>
        /\ loc[p].merges = <<>>
        /\ loc[p].puts = <<>>
        /\ db = loc[p].dbBefore
        /\ ~loc[p].authOk /\ ~loc[p].policyOk
        /\ \/ loc[p].err.kind = "OrganizationMembership"
           \/ loc[p].err.kind = "Http" /\ loc[p].prHead = NoSha

\* C9 witness: `bot merge force` by a non-member ended with
\* OrganizationMembership.
C9_Witness ==
    \E p \in Procs :
      /\ Done(p)
      /\ loc[p].cmd = "force"
      /\ loc[p].login \notin OrgMembers
      /\ loc[p].err.kind = "OrganizationMembership"

\* C10: when the resume path finds the re-fetched head of the pull request
\* different from the commit of the webhook, HeadChanged is reported on that
\* pull request, the merge request of the commit is removed and no merge call
\* is issued; a merge call of the resume path is for the commit of the
\* webhook, which is the head as re-fetched.
C10_HeadChangedAborts ==
    \A p \in Procs :
      Done(p) /\ Resume(p) =>
        /\ loc[p].found /\ loc[p].prHead # NoSha /\ loc[p].prHead # loc[p].sha =>
             /\ loc[p].err = Err("HeadChanged", "", loc[p].sha, loc[p].pr)
             /\ loc[p].comments =
                  <<Comment(loc[p].pr, "Head SHA changed; merge aborted.")>>
             /\ ~DbHas(db, Trim(loc[p].sha))
             /\ loc[p].merges = <<>>
        /\ \A k \in Idx(loc[p].merges) :
             /\ loc[p].merges[k].sha = loc[p].sha
             /\ loc[p].merges[k].sha = loc[p].prHead

\* C10 witness: a webhook for a queued commit was handled after a push.
C10_Witness ==
    \E p \in Procs :
      /\ Done(p) /\ Resume(p)
      /\ loc[p].err.kind = "HeadChanged"
      /\ DbHas(loc[p].dbBefore, Trim(loc[p].sha))
      /\ loc[p].pr # NoPR /\ loc[p].prHead = ShaOf(loc[p].pr, 2)

\* the merge request wait_to_merge writes for pull request i
IntentOf(i, requested_by) ==
    MergeRequest(PROwner(i), PRRepo(i), PRNumber(i), PRUrl(i), requested_by)

\* p handled a comment with command cmd and passed both checks
Allowed(p, cmd) ==
    /\ loc[p].kind = "comment"
    /\ loc[p].cmd = cmd
    /\ loc[p].policyOk

\* C11: a status webhook with state pending, a check-run webhook whose status
\* is not completed, and a status / check-run webhook for a commit without a
\* stored merge request fetch no pull request, issue no merge call, post no
\* comment and leave the store unchanged.
C11_NoIntentNoOp ==
    \A p \in Procs :
      /\ Done(p) /\ Resume(p)
      /\ \/ loc[p].status \in {"pending", "in_progress"}
         \/ ~DbHas(loc[p].dbBefore, Trim(loc[p].sha))
      => /\ loc[p].pr = NoPR /\ loc[p].prHead = NoSha /\ loc[p].ready = ""
         /\ loc[p].merges = <<>>
         /\ loc[p].comments = <<>>
         /\ loc[p].puts = <<>>
         /\ loc[p].err = NoErr
         /\ db = loc[p].dbBefore

\* C11 witness: a pending status webhook was handled for a queued commit that
\* is still the head of its pull request.
C11_Witness ==
    \E p \in Procs :
      /\ Done(p)
      /\ loc[p].kind = "status" /\ loc[p].status = "pending"
      /\ DbHas(db, Trim(loc[p].sha))
      /\ \E i \in PRIds : ~merged[i] /\ loc[p].sha = ShaOf(i, head[i])

\* C12: when a completed check-run or non-pending status webhook for a queued
\* commit is handled while the commit is still the head, the combined status
\* is success and every check run concluded success, and the reads succeed,
\* one merge call for that pull request and commit is issued and no merge
\* request is stored under the commit when the handler ends.
C12_PendingThenGreen ==
    \A p \in Procs :
      /\ Done(p) /\ Resume(p)
      /\ loc[p].status \notin {"pending", "in_progress"}
      /\ DbHas(loc[p].dbBefore, Trim(loc[p].sha))
      /\ loc[p].prHead = loc[p].sha
      /\ loc[p].ready = "Ready"
      /\ loc[p].err # HttpErr(NoPR)
      => /\ Len(loc[p].merges) = 1
         /\ loc[p].merges[1].pr = loc[p].pr
         /\ loc[p].merges[1].sha = loc[p].sha
         /\ IntentOf(loc[p].pr, DbGet(loc[p].dbBefore, Trim(loc[p].sha)).requested_by)
              = DbGet(loc[p].dbBefore, Trim(loc[p].sha))
         /\ ~DbHas(db, Trim(loc[p].sha))

\* C12 witness: a completed check run for a commit queued by a user's
\* `bot merge` led to the merge of the pull request.
C12_Witness ==
    \E p \in Procs :
      /\ Done(p)
      /\ loc[p].kind = "check"
      /\ DbGet(loc[p].dbBefore, Trim(loc[p].sha)).requested_by \in Users
      /\ Len(loc[p].merges) = 1 /\ loc[p].merges[1].ok
      /\ merged[loc[p].pr]

\* C13: `bot merge` by an authorized requester on an allowed pull request
\* whose CI is pending writes the merge request of that pull request and
\* requester under the trimmed head commit id, posts "Waiting for commit
\* status." and issues no merge call.
C13_PendingQueues ==
    \A p \in Procs :
      Done(p) /\ Allowed(p, "merge") /\ loc[p].ready = "Pending" =>
        /\ loc[p].puts = <<[key |-> Trim(loc[p].prHead),
                            val |-> IntentOf(loc[p].pr, loc[p].login)]>>
        /\ {e \in db : e.key = Trim(loc[p].prHead)} = {loc[p].puts[1]}
        /\ db = DbPut(loc[p].dbBefore, loc[p].puts[1].key, loc[p].puts[1].val)
        /\ loc[p].comments = <<Comment(loc[p].pr, "Waiting for commit status.")>>
        /\ loc[p].merges = <<>>
        /\ loc[p].err = NoErr

\* C13 witness: `bot merge` was queued for a polkadot pull request.
C13_Witness ==
    \E p \in Procs :
      /\ Done(p) /\ Allowed(p, "merge") /\ loc[p].ready = "Pending"
      /\ loc[p].pr = 2
      /\ DbHas(db, loc[p].prHead)

\* C14: `bot merge` on an allowed pull request whose CI is ready posts
\* "Trying merge.", then issues exactly one merge call, writes no merge
\* request for that pull request, and runs the companion update only after
\* the merge call succeeded.
C14_ReadyMerges ==
    \A p \in Procs :
      Done(p) /\ Allowed(p, "merge") /\ loc[p].ready = "Ready" =>
        /\ Len(loc[p].merges) = 1
        /\ loc[p].merges[1].pr = loc[p].pr
        /\ loc[p].merges[1].sha = loc[p].prHead
        /\ loc[p].merges[1].after = 1
        /\ loc[p].comments[1] = Comment(loc[p].pr, "Trying merge.")
        /\ \A k \in Idx(loc[p].puts) :
             /\ loc[p].puts[k].val # IntentOf(loc[p].pr, loc[p].puts[k].val.requested_by)
             /\ loc[p].merges[1].ok
        /\ ~loc[p].merges[1].ok =>
             /\ loc[p].err = Err("Merge", "", loc[p].prHead, loc[p].pr)
             /\ loc[p].comments = <<Comment(loc[p].pr, "Trying merge."),
                                    Comment(loc[p].pr, "Merge failed")>>
        /\ loc[p].err.issue \notin {NoPR, loc[p].pr} => loc[p].merges[1].ok

\* C14 witness: `bot merge` merged a substrate pull request and the companion
\* update queued the companion.
C14_Witness ==
    \E p \in Procs :
      /\ Done(p) /\ Allowed(p, "merge") /\ loc[p].ready = "Ready"
      /\ loc[p].merges[1].ok
      /\ loc[p].puts # <<>>

\* C15: `bot merge` on an allowed pull request whose CI failed reports
\* ChecksFailed and stops: no merge call, no merge request written, no
\* companion update.
C15_FailedStops ==
    \A p \in Procs :
      Done(p) /\ Allowed(p, "merge") /\ loc[p].ready = "Failed" =>
        /\ loc[p].merges = <<>>
        /\ loc[p].puts = <<>>
        /\ loc[p].err = Err("ChecksFailed", "", loc[p].prHead, loc[p].pr)
        /\ loc[p].comments =
             <<Comment(loc[p].pr, "Checks failed; merge aborted.")>>
        /\ db = DbDelete(loc[p].dbBefore, Trim(loc[p].prHead))

\* C15 witness: `bot merge` by a member ended with ChecksFailed.
C15_Witness ==
    \E p \in Procs :
      /\ Done(p) /\ Allowed(p, "merge") /\ loc[p].ready = "Failed"
      /\ loc[p].login \in OrgMembers

\* C16: `bot merge force` reads no combined status and no check runs: once
\* check_org_membership and merge_allowed passed, the merge call is issued,
\* and no merge request is written for that pull request.
C16_ForceSkipsReadiness ==
    \A p \in Procs :
      /\ pc[p] \in {"act", "done"} /\ Allowed(p, "force") => loc[p].ready = ""
      /\ Done(p) /\ Allowed(p, "force") =>
           /\ Len(loc[p].merges) = 1
           /\ loc[p].merges[1].pr = loc[p].pr
           /\ loc[p].merges[1].sha = loc[p].prHead
           /\ \A k \in Idx(loc[p].puts) :
                loc[p].puts[k].val #
                  IntentOf(loc[p].pr, loc[p].puts[k].val.requested_by)

\* C16 witness: `bot merge force` merged a pull request.
C16_Witness ==
    \E p \in Procs :
      /\ Done(p) /\ Allowed(p, "force")
      /\ loc[p].merges[1].ok

\* C17: `bot merge cancel` deletes the merge request stored under the pull
\* request's current head commit id, if any, and posts "Merge cancelled."; a
\* status / check-run webhook handled when no merge request is stored under
\* its commit does nothing.
C17_CancelDeletes ==
    \A p \in Procs :
      /\ Done(p) /\ loc[p].kind = "comment" /\ loc[p].cmd = "cancel"
                 /\ loc[p].err = NoErr =>
           /\ db = {e \in loc[p].dbBefore : e.key # Trim(loc[p].prHead)}
           /\ loc[p].comments = <<Comment(loc[p].pr, "Merge cancelled.")>>
           /\ loc[p].merges = <<>>
           /\ loc[p].puts = <<>>
      /\ Done(p) /\ Resume(p) /\ ~DbHas(loc[p].dbBefore, Trim(loc[p].sha)) =>
           /\ loc[p].merges = <<>>
           /\ loc[p].comments = <<>>
           /\ db = loc[p].dbBefore

\* C17 witness: a cancel removed the merge request of the head commit.
C17_Witness ==
    \E p \in Procs :
      /\ Done(p) /\ loc[p].cmd = "cancel"
      /\ DbHas(loc[p].dbBefore, Trim(loc[p].prHead))
      /\ ~DbHas(db, Trim(loc[p].prHead))

\* C18: after `bot merge cancel` was handled for a pull request, the store
\* holds no merge request of that pull request under any key.
C18_CancelLeavesNoIntent ==
    \A p \in Procs :
      Done(p) /\ loc[p].kind = "comment" /\ loc[p].cmd = "cancel"
              /\ loc[p].err = NoErr =>
        \A e \in db :
          FindPR(e.val.owner, e.val.repo_name, e.val.number) # loc[p].pr

\* p handles a command with the answers to merge_allowed fixed, and has passed
\* check_org_membership
Decided(p) ==
    /\ pc[p] \in {"act", "done"}
    /\ loc[p].env # NoEnv
    /\ loc[p].authOk

\* C19: when the pull request's mergeable flag is absent or false,
\* merge_allowed refuses with the unmergeable message before any other rule,
\* also for a requester in substrateteamleads, and the handler issues no
\* merge call and writes no merge request.
C19_UnmergeableFirst ==
    \A p \in Procs :
      Decided(p) /\ loc[p].env.mergeable # "true" =>
        /\ Done(p)
        /\ ~loc[p].policyOk
        /\ loc[p].err = Err("Message", "The PR is currently unmergeable.",
                            NoSha, loc[p].pr)
        /\ loc[p].comments =
             <<Comment(loc[p].pr, "The PR is currently unmergeable.")>>
        /\ loc[p].merges = <<>>
        /\ loc[p].puts = <<>>
        /\ loc[p].ready = ""
        /\ db = loc[p].dbBefore
        /\ merged = [i \in PRIds |-> FALSE]

\* C19 witness: a team lead's `bot merge force` on a pull request without the
\* mergeable flag, approved by a team lead, was refused.
C19_Witness ==
    \E p \in Procs :
      /\ Decided(p) /\ Done(p)
      /\ loc[p].cmd = "force"
      /\ loc[p].env.mergeable = "null"
      /\ loc[p].login \in UnwrapOrEmpty(loc[p].env.team_leads)
      /\ loc[p].env.reviews = <<Review("lead", "Approved", 1)>>

----------------------------------------------------------------------------
(* The claims about the policy, continued *)

\* reviews with one more review r at place k
WithReview(reviews, k, r) ==
    SubSeq(reviews, 1, k - 1) \o <<r>> \o SubSeq(reviews, k, Len(reviews))

\* the members of substrateteamleads, whether or not the lookup gave them
LeadLogins == TeamLeads \cup {"dev"}

\* C21: whenever merge_allowed allows, it still allows after one more
\* Approved review by a member of substrateteamleads is added to the review
\* list, at any place and with any submitted_at, everything else unchanged.
C21_LeadApprovalMonotone ==
    \A p \in Procs :
      LET e == loc[p].env
          allowed(rs) == MergeAllowed(e.mergeable, e.labels, loc[p].login,
                                      MinReviewers, e.team_leads, e.core_devs,
                                      rs, e.process) = "ok"
      IN  Decided(p) =>
            /\ loc[p].policyOk <=> allowed(e.reviews)
            /\ loc[p].policyOk =>
                 \A lead \in LeadLogins, k \in 1..(Len(e.reviews) + 1),
                    at \in 0..(MaxReviews + 1) :
                   allowed(WithReview(e.reviews, k, Review(lead, "Approved", at)))

\* C21 witness: a merge was allowed by the project-owner rule alone (the
\* requester is no team lead, no core-dev or team-lead approval), so that an
\* added team-lead approval changes the rule that allows.
C21_Witness ==
    \E p \in Procs :
      /\ Decided(p)
      /\ loc[p].policyOk
      /\ loc[p].login \notin UnwrapOrEmpty(loc[p].env.team_leads)
      /\ loc[p].env.team_leads = Team(TRUE, TeamLeads)
      /\ loc[p].env.reviews = <<Review("own", "ChangesRequested", 1),
                                Review("own", "Approved", 2)>>
      /\ loc[p].env.process.owners = {"own"}

\* C22: for a mergeable pull request whose process info was fetched, when
\* the requester is no team lead, no team lead approved and the core-dev
\* approvals are below the threshold, merge_allowed allows exactly when the
\* requester is a project owner or the most recent review by submitted_at
\* among the project owners' reviews is Approved; otherwise it refuses with
\* ProcessInfo when the process info is empty and with Approval when it is
\* not, the refusal is posted with the troubleshoot block, and no merge call
\* and no store write happens.
C22_OwnerRule ==
    \A p \in Procs :
      LET e == loc[p].env
          owners == e.process.owners
          approvals(team) == {k \in Idx(e.reviews) :
                                 /\ e.reviews[k].user \in team
                                 /\ e.reviews[k].state = "Approved"}
          threshold == IF \E label \in e.labels :
                            \E k \in Idx(label) : label[k] = "insubstantial"
                       THEN 1 ELSE MinReviewers
          latest_approved ==
              \E k \in Idx(e.reviews) :
                /\ e.reviews[k].user \in owners
                /\ e.reviews[k].state = "Approved"
                /\ \A j \in Idx(e.reviews) :
                     e.reviews[j].user \in owners =>
                       e.reviews[j].submitted_at <= e.reviews[k].submitted_at
          owner_rule == loc[p].login \in owners \/ latest_approved
          kind == IF e.process.empty THEN "ProcessInfo" ELSE "Approval"
          text == IF e.process.empty
                  THEN "Missing process info; check that the PR belongs to a project column."
                  ELSE "Missing approval from the project owner or a minimum of core developers."
      IN  /\ Decided(p)
          /\ e.mergeable = "true"
          /\ e.process.ok
          /\ loc[p].login \notin UnwrapOrEmpty(e.team_leads)
          /\ approvals(UnwrapOrEmpty(e.team_leads)) = {}
          /\ Cardinality(approvals(UnwrapOrEmpty(e.core_devs))) < threshold
          =>
          /\ loc[p].policyOk <=> owner_rule
          /\ ~owner_rule =>
               /\ Done(p)
               /\ loc[p].err = Err(kind, "", NoSha, loc[p].pr)
               /\ loc[p].comments =
                    <<Comment(loc[p].pr, text \o "\n\n" \o TROUBLESHOOT_MSG)>>
               /\ loc[p].merges = <<>>
               /\ loc[p].puts = <<>>
               /\ loc[p].ready = ""
               /\ db = loc[p].dbBefore
               /\ merged = [i \in PRIds |-> FALSE]

\* C22 witness: a `bot merge` was refused with Approval on a pull request with
\* one core-dev approval, no team-lead approval, and a project owner whose
\* earlier review approved and whose latest review asked for changes.
C22_Witness ==
    \E p \in Procs :
      /\ Decided(p) /\ Done(p)
      /\ loc[p].cmd = "merge"
      /\ loc[p].err.kind = "Approval"
      /\ loc[p].env.labels = {}
      /\ loc[p].env.core_devs = Team(TRUE, CoreDevs)
      /\ loc[p].env.process.owners = {"own"}
      /\ loc[p].env.reviews = <<Review("own", "ChangesRequested", 2),
                                Review("own", "Approved", 1)>>

\* C23: when the lookup of substrateteamleads or of core-devs fails, the
\* evaluation does not end with an error of the lookup: the team counts as
\* having no members, so neither a requester nor a review of that team allows
\* the merge, and the decision is the one of the remaining rules.
C23_FailedLookupIsEmptyTeam ==
    \A p \in Procs :
      LET e == loc[p].env
          approvals(team) == {k \in Idx(e.reviews) :
                                 /\ e.reviews[k].user \in team
                                 /\ e.reviews[k].state = "Approved"}
          threshold == IF \E label \in e.labels :
                            \E k \in Idx(label) : label[k] = "insubstantial"
                       THEN 1 ELSE MinReviewers
          lead_rule == /\ e.team_leads.ok
                       /\ \/ loc[p].login \in e.team_leads.members
                          \/ approvals(e.team_leads.members) # {}
          core_rule == /\ e.core_devs.ok
                       /\ Cardinality(approvals(e.core_devs.members)) >= threshold
          owner_rule == /\ e.process.ok
                        /\ \/ loc[p].login \in e.process.owners
                           \/ OwnerApproved(e.reviews, e.process.owners)
      IN  /\ Decided(p)
          /\ e.mergeable = "true"
          /\ ~e.team_leads.ok \/ ~e.core_devs.ok
          =>
          /\ loc[p].policyOk <=> lead_rule \/ core_rule \/ owner_rule
          /\ ~loc[p].policyOk =>
               /\ Done(p)
               /\ loc[p].err.kind =
                    IF ~e.process.ok THEN "ProcessFile"
                    ELSE IF e.process.empty THEN "ProcessInfo"
                    ELSE "Approval"

\* C23 witness: the lookup of substrateteamleads failed, the requester and
\* the only approving reviewer are both members of that team, and the merge
\* was refused by the last rule.
C23_Witness ==
    \E p \in Procs :
      /\ Decided(p) /\ Done(p)
      /\ ~loc[p].env.team_leads.ok
      /\ loc[p].login \in loc[p].env.team_leads.members
      /\ loc[p].env.reviews = <<Review("lead", "Approved", 1)>>
      /\ loc[p].env.process.ok
      /\ loc[p].err.kind = "ProcessInfo"

----------------------------------------------------------------------------
(* The claims about CI readiness *)

\* C24: ready_to_merge classifies every combined status and check-run list
\* it reads as exactly one of Ready, Failed, Pending: Ready iff the status is
\* success and every check run concluded success (also when there is none);
\* Failed iff the status is failure or error, or it is success, every check
\* run is completed and at least one did not conclude success; Pending
\* otherwise.
C24_ReadinessThreeWay ==
    \A p \in Procs :
      LET ci == loc[p].ci
          all_success == \A k \in Idx(ci.checks) :
                            ci.checks[k].conclusion = "success"
          all_completed == \A k \in Idx(ci.checks) :
                              ci.checks[k].status = "completed"
          ready == ci.state = "success" /\ all_success
          failed == \/ ci.state \in {"failure", "error"}
                    \/ ci.state = "success" /\ all_completed /\ ~all_success
          r == ReadyToMerge(ci.state, ci.checks)
      IN  Decided(p) /\ loc[p].ci # NoCI /\ loc[p].err # HttpErr(loc[p].pr) =>
            /\ loc[p].ready = r
            /\ r \in {"Ready", "Failed", "Pending"}
            /\ r = "Ready" <=> ready
            /\ r = "Failed" <=> failed
            /\ r = "Pending" <=> ~ready /\ ~failed
            /\ ~(ready /\ failed)
            /\ r = "Failed" <=> loc[p].err.kind = "ChecksFailed"
            /\ r = "Pending" => loc[p].plan = "wait"
            /\ r = "Ready" => loc[p].plan = "merge"

\* C24 witness: with status success, one check run completed with a failure
\* and one still in progress, the evaluator answered Pending.
C24_Witness ==
    \E p \in Procs :
      /\ Decided(p)
      /\ loc[p].ready = "Pending"
      /\ loc[p].ci.state = "success"
      /\ loc[p].ci.checks = <<CheckRun("completed", "failure"),
                              CheckRun("in_progress", "null")>>

----------------------------------------------------------------------------
(* The claims about the companion *)

\* repository names a merge may be done in
RepoNames ==
    {"substrate", "main-for-processbot-staging", "polkadot",
     "companion-for-processbot-staging"}

\* the base repository and its staging variant
BaseRepos == {"substrate", "main-for-processbot-staging"}

\* the handler of p issued a merge call for its pull request that succeeded
MergedHere(p) ==
    \E k \in Idx(loc[p].merges) :
      loc[p].merges[k].ok /\ loc[p].merges[k].pr = loc[p].pr

\* the pull requests other than its own that the handler of p wrote a merge
\* request for, commented on, or ended with an error about
Touched(p) ==
    LET l == loc[p]
    IN  ({FindPR(l.puts[k].val.owner, l.puts[k].val.repo_name,
                 l.puts[k].val.number) : k \in Idx(l.puts)}
         \cup {l.comments[k].pr : k \in Idx(l.comments)}
         \cup {l.err.issue}) \ {NoPR, l.pr}

\* C25: a handler fetches, updates, comments on or queues a companion only
\* after its merge call succeeded for a pull request of the base repository
\* whose body holds a companion reference, and then only the pull request
\* referred to; after a successful merge in another repository (the merge of
\* a companion included) or of a pull request whose body holds no reference,
\* nothing is fetched, updated or written.
C25_CompanionOnlyAfterBaseMerge ==
    \A p \in Procs :
      LET l == loc[p]
          ref == CompanionParse(l.body.lines)
          has_ref == l.body.some /\ ref.some
          w == World(db, head, merged, l)
      IN  /\ Touched(p) # {} =>
               /\ MergedHere(p)
               /\ PRRepo(l.pr) \in BaseRepos
               /\ has_ref
               /\ Touched(p) = {FindPR(ref.owner, ref.repo, ref.number)}
          /\ Done(p) /\ MergedHere(p)
                /\ (PRRepo(l.pr) \notin BaseRepos \/ ~has_ref) =>
               /\ l.puts = <<>>
               /\ l.err = NoErr
               /\ \A k \in Idx(l.comments) : l.comments[k].pr = l.pr
               /\ Len(l.merges) = 1
          /\ Done(p) /\ MergedHere(p) =>
               \A r \in RepoNames :
                 r \notin BaseRepos \/ ~has_ref =>
                   /\ UpdateCompanion(w, r) = {w}
                   /\ DetectThenUpdateCompanion(w, r) = {w}

\* C25 witness: a status webhook merged the companion pull request, whose
\* own body names a companion, and nothing else was done.
C25_Witness ==
    \E p \in Procs :
      /\ Done(p) /\ MergedHere(p)
      /\ loc[p].kind = "status"
      /\ PRRepo(loc[p].pr) = "polkadot"
      /\ loc[p].body = CompanionBody(2)
      /\ loc[p].puts = <<>>
      /\ loc[p].err = NoErr

\* the companion the body of p's pull request refers to
CompanionOf(p) ==
    LET ref == CompanionParse(loc[p].body.lines)
    IN  IF loc[p].body.some /\ ref.some
        THEN FindPR(ref.owner, ref.repo, ref.number)
        ELSE NoPR

\* the handler of p merged a pull request of substrate that names a companion
\* and ended without error: every step of the companion update succeeded
CompanionUpdated(p) ==
    /\ Done(p) /\ MergedHere(p)
    /\ PRRepo(loc[p].pr) = "substrate"
    /\ CompanionOf(p) # NoPR
    /\ loc[p].err = NoErr

\* C26: at the end of a handler in which the companion update succeeded,
\* the handler has written exactly one merge request, keyed by the
\* companion's head commit after the update and holding the companion's
\* owner, repository, number and url with requester parity-processbot[bot];
\* its last comment is the waiting comment on the companion; it issued no
\* merge call for the companion.  A merge request of the bot is acted on only
\* by a status or check-run webhook for the commit it is keyed by, which
\* merges that pull request at that commit.
C26_CompanionQueued ==
    [][\A p \in Procs, c \in PRIds \cup {NoPR} :
         pc[p] = "act" /\ pc'[p] = "done" /\ c = CompanionOf(p) =>
           (LET l == loc[p]
                S == ShaOf(c, head[c])
                m == MergeRequest(PROwner(c), PRRepo(c), PRNumber(c),
                                  PRUrl(c), "parity-processbot[bot]")
                found == DbGet(l.dbBefore, Trim(l.sha))
            IN  /\ MergedHere(p) /\ PRRepo(l.pr) = "substrate"
                      /\ c # NoPR /\ l.err = NoErr =>
                     /\ l.puts = <<[key |-> S, val |-> m]>>
                     /\ DbHas(db, S) /\ DbGet(db, S) = m
                     /\ l.comments # <<>>
                     /\ l.comments[Len(l.comments)] =
                          Comment(c, "Waiting for commit status.")
                     /\ \A k \in Idx(l.merges) : l.merges[k].pr # c
                     /\ Len(l.merges) = 1
                /\ \A k \in Idx(l.merges) : l.merges[k].pr = l.pr
                /\ l.found /\ DbHas(l.dbBefore, Trim(l.sha))
                      /\ found.requested_by = "parity-processbot[bot]"
                      /\ l.merges # <<>> =>
                     /\ Resume(p)
                     /\ l.pr = FindPR(found.owner, found.repo_name,
                                      found.number)
                     /\ l.merges = <<l.merges[1]>>
                     /\ l.merges[1].sha = Trim(l.sha)
                     /\ l.merges[1].sha = l.prHead)'
      ]_vars

\* C26 witness: the update moved the companion to its second head commit,
\* and the merge request is stored under that commit.
C26_Witness ==
    \E p \in Procs :
      /\ CompanionUpdated(p)
      /\ head[CompanionOf(p)] = 2
      /\ DbHas(db, ShaOf(CompanionOf(p), 2))
      /\ ~merged[CompanionOf(p)]

\* the handler of p merged a pull request of substrate that names a
\* companion, and a step of the companion update failed
CompanionFailed(p) ==
    /\ Done(p) /\ MergedHere(p)
    /\ PRRepo(loc[p].pr) = "substrate"
    /\ CompanionOf(p) # NoPR
    /\ loc[p].err # NoErr

\* C27: when a step of the companion update fails, the handler ends with
\* that error, tagged with the companion; it has written no merge request,
\* the store holds nothing it did not hold before; the error is posted as
\* the handler's last comment, on the companion; the base pull request stays
\* merged by the handler's one merge call.
C27_CompanionFailureReported ==
    \A p \in Procs :
      LET l == loc[p]
          c == CompanionOf(p)
      IN  CompanionFailed(p) =>
            /\ l.err.kind \in {"Http", "Companion", "Message"}
            /\ l.err.issue = c
            /\ l.puts = <<>>
            /\ db \subseteq l.dbBefore
            /\ \A e \in db :
                 FindPR(e.val.owner, e.val.repo_name, e.val.number) = c =>
                   e \in l.dbBefore
            /\ l.comments # <<>>
            /\ l.comments[Len(l.comments)].pr = c
            /\ l.comments[Len(l.comments)].msg \in
                 {"Error updating substrate", "Failed updating substrate.",
                  "Unexpected error; see logs."}
            /\ \A k \in 1..(Len(l.comments) - 1) : l.comments[k].pr = l.pr
            /\ merged[l.pr]
            /\ Len(l.merges) = 1 /\ l.merges[1].ok

\* C27 witness: the update of the companion failed after a status webhook
\* merged the base pull request; the companion is open and not queued.
C27_Witness ==
    \E p \in Procs :
      /\ CompanionFailed(p)
      /\ Resume(p)
      /\ loc[p].err.kind = "Companion"
      /\ ~merged[CompanionOf(p)]
      /\ db = {}

----------------------------------------------------------------------------
(* The claims about companion_parse *)

\* the lines of a body that hold the marker, in lower case or capitalised,
\* directly followed by a reference in the given form to pull request i
LinesWith(lines, form, i) ==
    {n \in Idx(lines) :
       \E k \in 1..(Len(lines[n]) - 1) :
         /\ lines[n][k] \in {Marker, MarkerCapital}
         /\ lines[n][k + 1].t = form
         /\ lines[n][k + 1].owner = PROwner(i)
         /\ lines[n][k + 1].repo = PRRepo(i)
         /\ lines[n][k + 1].digits = DigitsOf(PRNumber(i))}

\* C28: for every body that holds on one line, among any other lines, the
\* marker (in either case) followed by the long form or the short form of a
\* reference to a pull request, companion_parse returns the url
\* https://github.com/<owner>/<repo>/pull/<n> without any query, the owner,
\* the repository and the number of that pull request; the handler that
\* merged the base pull request then works on that companion and no other.
C28_ParseFindsReference ==
    \A p \in Procs, i \in PRIds :
      LET lines == loc[p].body.lines
      IN  /\ pc[p] \in {"act", "done"}
          /\ LinesWith(lines, "long", i) \cup LinesWith(lines, "short", i) # {}
          =>
          /\ CompanionParse(lines) =
               [some |-> TRUE, html_url |-> PRUrl(i), owner |-> PROwner(i),
                repo |-> PRRepo(i), number |-> PRNumber(i)]
          /\ Done(p) /\ MergedHere(p) => Touched(p) = {i}

\* C28 witness: the base pull request was merged and the companion queued on
\* a body with prose before and after a line holding the capitalised marker
\* and the url with a query.
C28_Witness ==
    \E p \in Procs :
      /\ Done(p) /\ MergedHere(p)
      /\ loc[p].body.lines =
           << <<Word>>, <<MarkerCapital, LongRef(2, "?extra_params=true")>>,
              <<Word, Word>> >>
      /\ loc[p].err = NoErr
      /\ Touched(p) = {2}

\* C29: for every body in which the marker and a reference occur, but never
\* both on one line, companion_parse returns None, and the handler that
\* merged the base pull request does nothing about a companion.
C29_SplitReferenceIgnored ==
    \A p \in Procs :
      LET l == loc[p]
          lines == l.body.lines
          marked == {n \in Idx(lines) :
                       \E k \in Idx(lines[n]) :
                         lines[n][k] \in {Marker, MarkerCapital}}
          referring == {n \in Idx(lines) :
                          \E k \in Idx(lines[n]) :
                            lines[n][k].t \in {"long", "short"}}
      IN  /\ pc[p] \in {"act", "done"}
          /\ marked # {} /\ referring # {}
          /\ marked \cap referring = {}
          =>
          /\ ~CompanionParse(lines).some
          /\ Done(p) /\ MergedHere(p) =>
               /\ Touched(p) = {}
               /\ l.puts = <<>>
               /\ l.err = NoErr
               /\ db = l.dbBefore

\* C29 witness: the base pull request was merged on a body whose first line
\* ends with the marker and whose next line starts with the url.
C29_Witness ==
    \E p \in Procs :
      /\ Done(p) /\ MergedHere(p)
      /\ loc[p].body.lines = << <<Word, Marker>>, <<LongRef(2, ""), Word>> >>
      /\ loc[p].puts = <<>>

----------------------------------------------------------------------------
(* The claims about the requests that reach no handler *)

\* the request of p failed the check of its signature
BadSignature(p) ==
    /\ loc[p].kind = "rejected"
    /\ loc[p].err.msg = "Validation signature does not match"

\* C30: a request to /webhook whose signature does not match its body is
\* answered 200 OK with an empty body and a request to another path is
\* answered 404, both as Ok values of webhook(); the request with the bad
\* signature reaches no payload handler: it fetched no pull request, issued
\* no merge call, posted no comment, not even for its error, and left the
\* store as it was; the request to another path never holds the lock.
C30_BadRequestsAnswered ==
    \A p \in Procs :
      LET l == loc[p]
      IN  /\ BadSignature(p) =>
               /\ pc[p] = "done"
               /\ Response(p) = [ok |-> TRUE, status |-> 200, body |-> ""]
               /\ l.pr = NoPR /\ l.prHead = NoSha /\ ~l.found
               /\ l.merges = <<>>
               /\ l.comments = <<>>
               /\ l.puts = <<>>
               /\ db = l.dbBefore
          /\ pc[p] = "notfound" =>
               /\ Response(p).ok /\ Response(p).status = 404
               /\ lock # p
               /\ l = Loc0

\* C30 witness: a request with a bad signature is about to be answered while
\* a merge request is stored and a request to another path gets its 404.
C30_Witness ==
    \E p, q \in Procs :
      /\ BadSignature(p) /\ Done(p)
      /\ db # {}
      /\ pc[q] = "notfound"

----------------------------------------------------------------------------
(* The claims about failures and about the resume path *)

\* C31: when the merge call of a handler fails, on a `bot merge`, a
\* `bot merge force` or a status / check-run webhook, the error carries the
\* head commit of the pull request, no merge request is stored under that
\* commit when the handler ends and the store is otherwise what it was, the
\* last comment is "Merge failed" on the pull request, the failed call is the
\* only merge call of the handler and nothing is done about a companion.
C31_MergeFailureReported ==
    \A p \in Procs :
      LET l == loc[p]
      IN  Done(p) /\ l.err.kind = "Merge" =>
            /\ Resume(p) \/ MergeCommand(p)
            /\ l.err.sha = l.prHead
            /\ l.err.issue = l.pr
            /\ Len(l.merges) = 1
            /\ l.merges[1].pr = l.pr /\ ~l.merges[1].ok
            /\ l.merges[1].sha = l.err.sha
            /\ ~DbHas(db, Trim(l.err.sha))
            /\ db = DbDelete(l.dbBefore, Trim(l.err.sha))
            /\ l.comments # <<>>
            /\ l.comments[Len(l.comments)] = Comment(l.pr, "Merge failed")
            /\ l.puts = <<>>
            /\ Touched(p) = {}
            /\ ~merged[l.pr] \/ l.merges[1].again

\* C31 witness: the merge call on a status / check-run webhook failed for a
\* commit whose merge request was stored, on a pull request of substrate
\* whose body names a companion.
C31_Witness ==
    \E p \in Procs :
      /\ Done(p) /\ Resume(p)
      /\ loc[p].err.kind = "Merge"
      /\ DbHas(loc[p].dbBefore, Trim(loc[p].err.sha))
      /\ loc[p].body = CompanionBody(2)
      /\ PRRepo(loc[p].pr) = "substrate"

\* C32: a status / check-run webhook that found a merge request for the head
\* of its pull request and read the CI state does what ready_to_merge says of
\* that state: it issues the merge call exactly when ready_to_merge says
\* ready, ends with ChecksFailed exactly when it says failed, and does
\* nothing exactly when it says pending.
C32_ResumeAgreesWithEvaluator ==
    \A p \in Procs :
      LET l == loc[p]
      IN  Done(p) /\ Resume(p) /\ l.ready # "" /\ l.err.kind # "Http" =>
            /\ l.ready = "Ready" <=> l.merges # <<>>
            /\ l.ready = "Failed" <=> l.err.kind = "ChecksFailed"
            /\ l.ready = "Pending" <=>
                 /\ l.merges = <<>> /\ l.comments = <<>> /\ l.err = NoErr
                 /\ db = l.dbBefore

C34_OtherCommentsIgnored ==
    \A p \in Procs :
      LET l == loc[p]
      IN  Done(p) /\ l.kind = "comment" /\ l.cmd = "none" =>
            /\ l.comments = <<>>
            /\ l.merges = <<>>
            /\ l.puts = <<>>
            /\ db = l.dbBefore

----------------------------------------------------------------------------
(* The claim about the companion's repository *)

\* C35: when git diff --name-only printed nothing, the companion update
\* resets to the commit it started from and calls none of the trees, commits
\* and refs API, and when it returns Ok, the sha returned, under which the
\* companion's merge request is written, is that commit and the companion's
\* head has not moved.
C35_EmptyDiffResets ==
    \A p \in Procs :
      LET l == loc[p]
      IN  Done(p) /\ MergedHere(p) /\ l.diff = <<>> =>
            /\ l.git = <<"reset">>
            /\ l.err = NoErr =>
                 /\ Len(l.puts) = 1
                 /\ l.puts[1].key = ShaOf(CompanionOf(p), 1)
                 /\ head[CompanionOf(p)] = 1

----------------------------------------------------------------------------
(* The claims about failed reads, reviewers and the cancel command *)

\* C36: when a status / check-run webhook finds a merge request and then an
\* API read fails (the fetch of the pull request, the check runs or the
\* combined status), the error carries no pull request; the handler posts no
\* comment, issues no merge call, writes nothing, and the store is unchanged:
\* the merge request is still stored under the commit, for the next webhook.
C36_ResumeReadFailureKeepsIntent ==
    \A p \in Procs :
      LET l == loc[p]
      IN  Done(p) /\ Resume(p) /\ l.err.kind = "Http" /\ l.merges = <<>> =>
            /\ l.found
            /\ l.err.issue = NoPR
            /\ l.comments = <<>>
            /\ l.puts = <<>>
            /\ db = l.dbBefore
            /\ DbHas(db, Trim(l.sha))

\* C36 witness: the read of the combined status failed after the pull
\* request was fetched with the queued head and the check runs were read.
C36_Witness ==
    \E p \in Procs :
      /\ Done(p) /\ Resume(p)
      /\ loc[p].err.kind = "Http" /\ loc[p].merges = <<>>
      /\ loc[p].prHead = loc[p].sha
      /\ loc[p].ready # ""
      /\ DbHas(db, Trim(loc[p].sha))

\* C37: for a mergeable pull request whose requester is neither team lead
\* nor project owner and which no team lead and no project owner approved,
\* merge_allowed allows the merge only if the core-devs who have an Approved
\* review number at least the threshold (1 with a label containing
\* `insubstantial`, min_reviewers otherwise).
C37_DistinctCoreDevs ==
    \A p \in Procs :
      LET e == loc[p].env
          labelled == \E label \in e.labels :
                         \E k \in Idx(label) : label[k] = "insubstantial"
          approvers == {u \in UnwrapOrEmpty(e.core_devs) :
                          \E k \in Idx(e.reviews) :
                            /\ e.reviews[k].user = u
                            /\ e.reviews[k].state = "Approved"}
          lead_approved == \E k \in Idx(e.reviews) :
                              /\ e.reviews[k].user \in UnwrapOrEmpty(e.team_leads)
                              /\ e.reviews[k].state = "Approved"
          owner_rule == /\ e.process.ok
                        /\ \/ loc[p].login \in e.process.owners
                           \/ OwnerApproved(e.reviews, e.process.owners)
      IN  /\ Decided(p) /\ e.mergeable = "true"
          /\ loc[p].login \notin UnwrapOrEmpty(e.team_leads)
          /\ ~lead_approved /\ ~owner_rule
          /\ loc[p].policyOk
          =>
          Cardinality(approvers) >= IF labelled THEN 1 ELSE MinReviewers

\* C38: a `bot merge cancel` comment is handled the same for every
\* commenter, member of the organization or not, without the membership
\* check and without merge_allowed: once the pull request is fetched, the
\* merge request under the head fetched is deleted, whoever requested it, and
\* nothing else of the store changes; the handler ends with an error only
\* when the fetch failed, and then the store is unchanged.
C38_CancelUnchecked ==
    \A p \in Procs :
      LET l == loc[p]
      IN  Done(p) /\ l.kind = "comment" /\ l.cmd = "cancel" =>
            /\ ~l.authOk /\ ~l.policyOk
            /\ l.merges = <<>> /\ l.puts = <<>>
            /\ l.err = NoErr =>
                 /\ l.prHead # NoSha
                 /\ ~DbHas(db, Trim(l.prHead))
                 /\ db = DbDelete(l.dbBefore, Trim(l.prHead))
            /\ l.err # NoErr =>
                 /\ l.err = HttpErr(l.pr)
                 /\ l.prHead = NoSha
                 /\ db = l.dbBefore

\* C38 witness: a user who is no member of the organization cancelled the
\* merge request a member had queued.
C38_Witness ==
    \E p \in Procs :
      /\ Done(p) /\ loc[p].kind = "comment" /\ loc[p].cmd = "cancel"
      /\ loc[p].login \notin OrgMembers
      /\ DbHas(loc[p].dbBefore, Trim(loc[p].prHead))
      /\ DbGet(loc[p].dbBefore, Trim(loc[p].prHead)).requested_by \in OrgMembers
      /\ ~DbHas(db, Trim(loc[p].prHead))

====
